---------------------------- MODULE Spec2Model ----------------------------
(***************************************************************************)
(* LuaJ: the single-pass bytecode compiler (src/src/parser.c) and the      *)
(* threaded interpreter (execute, src/unnamed/part_010) as one state       *)
(* machine.  A chunk is a sequence of tokens (the lexer is an external     *)
(* collaborator); the compiler consumes it one top-level statement at a    *)
(* time and the interpreter then runs the prototype one instruction at a   *)
(* time.                                                                   *)
(***************************************************************************)
EXTENDS Integers, Sequences, FiniteSets, TLC

VARIABLES
    P,          \* Parser: the token stream, the FnScope chain, the Fn heap
    prog,       \* the chunk handed to lua_load (kind and parameters)
    phase,      \* "init" | "parse" | "loaded" | "run" | "done" | "run_err" |
                \* "syntax_err" | "abort" | "undefined"
    stack,      \* L->stack: register stack, absolute index -> value (written slots only)
    call_stack, \* L->call_stack: sequence of CallInfo
    num_calls,  \* L->num_calls
    max_calls,  \* L->max_calls
    fn,         \* execute: Fn *fn (index into the Fn heap)
    ip,         \* execute: BcIns *ip (pc inside fn)
    s,          \* execute: uint64_t *s (frame base, absolute stack index)
    garbage,    \* the contents of register slots that were never written
    L,          \* State seen by the protected calls of state.c: the value
                \* stack (memory and top) and the recovery point L->err
    pcalls,     \* the activations of pcall, innermost last
    event,      \* the last raise or return of the protected-call layer
    patch,      \* patch_jmp on its own: its arguments, the instruction, the outcome
    pool        \* one Fn's constant pool as memory: num_k, max_k, the bytes
                \* allocated for k, and the last emit_k with its operand

vars == <<prog, P, phase, stack, call_stack, num_calls, max_calls, fn, ip, s, garbage,
          L, pcalls, event, patch, pool>>

\* ---------------------------------------------------------------- bounds

\* the largest number literal of the and/or, assignment and return chunks
MaxNum == 4
\* L->max_calls when execute starts
InitMaxCalls == 2
\* the deepest call chain that is followed
MaxCalls == 65

\* ------------------------------------------------------------- bytecode.h

JMP_BIAS == 8388608
JMP_NONE == -1
NO_SLOT == 255
UINT8_MAX == 255
UINT16_MAX == 65535
\* luaconf.h (not part of the repository): the size of FnScope's locals[]
LUAI_MAXVARS == 200

BYTECODE ==
    << "NOP", "ASSERT", "MOV", "KPRIM", "KINT", "KNUM", "KSTR", "KFN", "KNIL",
       "NEG", "ADDVV", "ADDVN", "SUBVV", "SUBVN", "SUBNV", "MULVV", "MULVN",
       "DIVVV", "DIVVN", "DIVNV", "MODVV", "MODVN", "MODNV", "POW", "CONCAT",
       "NOT", "IST", "ISTC", "ISF", "ISFC",
       "EQVV", "EQVP", "EQVN", "EQVS", "NEQVV", "NEQVP", "NEQVN", "NEQVS",
       "LTVV", "LTVN", "LEVV", "LEVN", "GTVV", "GTVN", "GEVV", "GEVN",
       "JMP", "CALL", "RET0", "RET1", "RET" >>

BC_LAST == Len(BYTECODE)

\* BC_<name>: the enum value of an opcode
BC(name) == (CHOOSE i \in 1..Len(BYTECODE) : BYTECODE[i] = name) - 1

\* the mnemonic a dispatch on bc_op(ins) selects ("?" past the table)
OpName(op) == IF op + 1 \in 1..Len(BYTECODE) THEN BYTECODE[op + 1] ELSE "?"

\* An instruction is its four bytes; D and E overlay B, C and A, B, C.
ins3(op, a, b, c) == [op |-> op % 256, a |-> a % 256, b |-> b % 256, c |-> c % 256]
ins2(op, a, d) ==
    [op |-> op % 256, a |-> a % 256, b |-> d % 256, c |-> (d \div 256) % 256]
ins1(op, e) ==
    [op |-> op % 256, a |-> e % 256, b |-> (e \div 256) % 256,
     c |-> (e \div 65536) % 256]
ins0(op) == [op |-> op % 256, a |-> 0, b |-> 0, c |-> 0]

bc_op(i) == i.op
bc_a(i) == i.a
bc_b(i) == i.b
bc_c(i) == i.c
bc_d(i) == i.b + 256 * i.c
bc_e(i) == i.a + 256 * i.b + 65536 * i.c

bc_set_op(i, op) == [i EXCEPT !.op = op % 256]
bc_set_a(i, a) == [i EXCEPT !.a = a % 256]
bc_set_c(i, c) == [i EXCEPT !.c = c % 256]
bc_set_e(i, e) ==
    [i EXCEPT !.a = e % 256, !.b = (e \div 256) % 256, !.c = (e \div 65536) % 256]

\* ---------------------------------------------------------------- value.h

TAG_TRUE == 0
TAG_NIL == 1
TAG_FALSE == 3

prim2v(tag) == [t |-> "prim", v |-> tag]
n2v(n) == [t |-> "num", v |-> n]
fn2v(f) == [t |-> "fn", v |-> f]
\* a string value carries its contents in a field of its own, so that a
\* number is never compared with a string
str2v(id) == [t |-> "str", str |-> id]
VAL_NIL == prim2v(TAG_NIL)
VAL_FALSE == prim2v(TAG_FALSE)
VAL_TRUE == prim2v(TAG_TRUE)

is_num(v) == v.t = "num"
is_fn(v) == v.t = "fn"
\* FALSE_MASK: a primitive whose tag has bit 0 set (nil, false)
compares_true(v) == ~(v.t = "prim" /\ v.v % 2 = 1)

\* ---------------------------------------------------------------- lexer.h

Tk(t) == [t |-> t, s |-> "", n |-> 0, line |-> 1]
Id(name) == [t |-> "ident", s |-> name, n |-> 0, line |-> 1]
Num(n) == [t |-> "num", s |-> "", n |-> n, line |-> 1]
Str(str) == [t |-> "str", s |-> str, n |-> 0, line |-> 1]
TK_EOF == Tk("eof")

peek_tk(ps) == ps.toks[1]

\* ------------------------------------------------- parser.c: state, scopes

\* Every change of the parser's state goes through Upd: nothing runs after
\* err_syntax has unwound to the protected call (or an assert(0) was hit).
Upd(ps, new) == IF ps.err # "" THEN ps ELSE new

\* The statements of a C function run one after another.  InOrder(steps) is
\* TRUE; it has the states a function goes through computed in that order,
\* before the value that is built from them.
InOrder(steps) == Len(steps) > 0

read_tk(ps) ==
    Upd(ps, IF Len(ps.toks) > 1 THEN [ps EXCEPT !.toks = Tail(ps.toks)] ELSE ps)

\* the ways the compiler stops before the end of the chunk
Stop(ps, status, msg) ==
    Upd(ps, [ps EXCEPT !.status = status, !.err = msg, !.toks = <<TK_EOF>>])

\* err_syntax / trigger: record the message and unwind (no token is read again)
err_syntax(ps, msg) == Stop(ps, "syntax_err", msg)

\* assert(0): the compiler has no code for this input
assert0(ps, what) == Stop(ps, "abort", what)

\* undefined behaviour of the C program (a read or write outside an array)
undefined(ps, what) == Stop(ps, "undefined", what)

\* assert(cond): records the assertions that did not hold
assert(ps, cond, what) ==
    IF cond THEN ps ELSE Upd(ps, [ps EXCEPT !.failed = @ \cup {what}])

\* what the compiler came across on its way (seen is no field of the Parser: it
\* records, and nothing reads it)
Note(ps, cond, what) ==
    IF cond /\ ps.err = "" THEN [ps EXCEPT !.seen = @ \cup {what}] ELSE ps

\* tk2str: the name of a token in a message (TK_NAMES, or the character quoted)
tk2str(t) ==
    CASE t = "ident" -> "identifier"
      [] t = "num" -> "number"
      [] t = "str" -> "string"
      [] t = "eof" -> "end of file"
      [] t = "~=" -> "'!='"
      [] OTHER -> "'" \o t \o "'"

expect_tk(ps, t) ==
    IF peek_tk(ps).t = t THEN read_tk(ps)
    ELSE err_syntax(ps, "expected " \o tk2str(t) \o ", found " \o tk2str(peek_tk(ps).t))

F(ps) == ps.f[Len(ps.f)]
SetF(ps, f) == Upd(ps, [ps EXCEPT !.f[Len(ps.f)] = f])
CurFn(ps) == ps.fns[F(ps).fn]
SetFn(ps, fnobj) == Upd(ps, [ps EXCEPT !.fns[F(ps).fn] = fnobj])
num_ins(ps) == Len(CurFn(ps).ins)
num_k(ps) == Len(CurFn(ps).k)
ValidPc(ps, pc) == pc >= 0 /\ pc < num_ins(ps)
\* p->f->fn->ins[pc]; a read outside the emitted instructions is undefined
InsAt(ps, pc) == IF ValidPc(ps, pc) THEN CurFn(ps).ins[pc + 1] ELSE ins0(BC("NOP"))
SetIns(ps, pc, i) ==
    IF ValidPc(ps, pc) THEN SetFn(ps, [CurFn(ps) EXCEPT !.ins[pc + 1] = i])
    ELSE undefined(ps, "write outside ins[]")

fn_new(name) ==
    [name |-> name, num_params |-> 0, ins |-> <<>>, line_info |-> <<>>,
     k |-> <<>>, start_line |-> -1, end_line |-> -1]

\* fn_emit: appends the instruction and its line; returns the new state
\* (the PC it returns is num_ins before the call)
fn_emit(fnobj, ins, line) ==
    [fnobj EXCEPT !.ins = Append(@, ins), !.line_info = Append(@, line)]

emit(ps, ins, line) == SetFn(ps, fn_emit(CurFn(ps), ins, line))

fn_emit_k(fnobj, k) == [fnobj EXCEPT !.k = Append(@, k)]

\* emit_k: the index returned is num_k before the call
emit_k(ps, k) ==
    LET idx == num_k(ps)
        ps1 == SetFn(ps, fn_emit_k(CurFn(ps), k))
    IN  IF idx > UINT16_MAX THEN err_syntax(ps1, "too many constants in function")
        ELSE ps1

enter_fn(ps, name, start_line) ==
    LET fnobj == [fn_new(name) EXCEPT !.start_line = start_line]
        scope == [fn |-> Len(ps.fns) + 1, num_stack |-> 0, num_locals |-> 0,
                  locals |-> <<>>, b |-> <<>>]
    IN  Upd(ps, [ps EXCEPT !.fns = Append(@, fnobj), !.f = Append(@, scope)])

exit_fn(ps, end_line) ==
    LET ps1 == SetFn(ps, [CurFn(ps) EXCEPT !.end_line = end_line])
        ps2 == emit(ps1, ins0(BC("RET0")), end_line)
    IN  Upd(ps2, [ps2 EXCEPT !.f = SubSeq(@, 1, Len(@) - 1)])

enter_block(ps) ==
    LET ps1 == assert(ps, F(ps).num_stack = F(ps).num_locals, "enter_block")
        blk == [first_local |-> F(ps).num_locals, is_loop |-> 0, breaks |-> 0]
    IN  SetF(ps1, [F(ps1) EXCEPT !.b = Append(@, blk)])

enter_loop(ps) ==
    LET ps1 == enter_block(ps)
        n == Len(F(ps1).b)
    IN  SetF(ps1, [F(ps1) EXCEPT !.b[n].is_loop = 1, !.b[n].breaks = JMP_NONE])

exit_block(ps) ==
    LET f == F(ps)
        n == Len(f.b)
    IN  SetF(ps, [f EXCEPT !.num_locals = f.b[n].first_local,
                           !.num_stack = f.b[n].first_local,
                           !.b = SubSeq(@, 1, n - 1)])

\* reserve_slots: the base it returns is num_stack before the call
reserve_slots(ps, n) ==
    LET ps1 == IF F(ps).num_stack + n >= UINT8_MAX
               THEN err_syntax(ps, "too many local variables in function")
               ELSE ps
    IN  SetF(ps1, [F(ps1) EXCEPT !.num_stack = @ + n])

\* locals[num_locals++] = name.  There is no test against the size of
\* locals[]: a write past its end either traps or passes (ps.oob) and the
\* name is then read back from where it was written.
def_local(ps, name) ==
    LET f == F(ps)
        i == f.num_locals + 1
    IN  IF f.num_locals >= LUAI_MAXVARS /\ ps.oob = "trap"
        THEN undefined(ps, "write outside locals[]")
        ELSE SetF(ps, [f EXCEPT
                !.locals = IF i <= Len(@) THEN [@ EXCEPT ![i] = name] ELSE Append(@, name),
                !.num_locals = @ + 1])


\* ------------------------------------------- parser.c: the call graph

\* The functions of the parser call one another through Do, which selects the
\* function by its name: f(ps, ...) below is the call, f_body(ps, ...) further
\* down is the function's code.
RECURSIVE Do(_, _, _)
to_slot(ps, e0, dst) == Do("to_slot", ps, <<e0, dst>>)
to_next_slot(ps, e0) == Do("to_next_slot", ps, <<e0>>)
to_any_slot(ps, e0) == Do("to_any_slot", ps, <<e0>>)
patch_jmps(ps, head, target) == Do("patch_jmps", ps, <<head, target>>)
patch_jmps_and_vals(ps, head, jmp_target, dst, val_target) == Do("patch_jmps_and_vals", ps, <<head, jmp_target, dst, val_target>>)
append_jmp(ps, head, to_add) == Do("append_jmp", ps, <<head, to_add>>)
discard_vals(ps, head) == Do("discard_vals", ps, <<head>>)
emit_jmp(ps) == Do("emit_jmp", ps, <<>>)
invert_cond(ps, jmp) == Do("invert_cond", ps, <<jmp>>)
parse_subexpr(ps, min_prec) == Do("parse_subexpr", ps, <<min_prec>>)
parse_expr_list(ps) == Do("parse_expr_list", ps, <<>>)
parse_block(ps) == Do("parse_block", ps, <<>>)
parse_stmt(ps) == Do("parse_stmt", ps, <<>>)
StmtAndSemi(ps) == Do("StmtAndSemi", ps, <<>>)
parse_fn_body(ps, fn_tk, fn_name) == Do("parse_fn_body", ps, <<fn_tk, fn_name>>)
emit_binop(ps, op, l, r) == Do("emit_binop", ps, <<op, l, r>>)
emit_binop_left(ps, op, l) == Do("emit_binop_left", ps, <<op, l>>)
emit_unop(ps, op, l) == Do("emit_unop", ps, <<op, l>>)
emit_branch_true(ps, l0, line) == Do("emit_branch_true", ps, <<l0, line>>)
emit_branch_false(ps, l0, line) == Do("emit_branch_false", ps, <<l0, line>>)
emit_eq(ps, op, l, r) == Do("emit_eq", ps, <<op, l, r>>)
emit_rel(ps, op, l, r) == Do("emit_rel", ps, <<op, l, r>>)
emit_arith(ps, op, l, r) == Do("emit_arith", ps, <<op, l, r>>)
parse_primary_expr(ps) == Do("parse_primary_expr", ps, <<>>)
parse_suffixes(ps, l) == Do("parse_suffixes", ps, <<l>>)
parse_call_expr(ps, l) == Do("parse_call_expr", ps, <<l>>)
parse_cond_expr(ps) == Do("parse_cond_expr", ps, <<>>)
parse_then(ps) == Do("parse_then", ps, <<>>)
parse_if(ps) == Do("parse_if", ps, <<>>)
parse_while(ps) == Do("parse_while", ps, <<>>)
parse_repeat(ps) == Do("parse_repeat", ps, <<>>)
parse_return(ps) == Do("parse_return", ps, <<>>)
parse_local(ps) == Do("parse_local", ps, <<>>)
parse_local_var(ps) == Do("parse_local_var", ps, <<>>)
parse_assign(ps, l) == Do("parse_assign", ps, <<l>>)
parse_assign_or_call(ps) == Do("parse_assign_or_call", ps, <<>>)
parse_break(ps) == Do("parse_break", ps, <<>>)

\* ------------------------------------------------ parser.c: expressions

expr_new(t, tk) ==
    [t |-> t, tk |-> tk, tag |-> 0, num |-> 0, s |-> 0, slot |-> 0, pc |-> 0,
     true_list |-> JMP_NONE, false_list |-> JMP_NONE]

has_jmp(e) == e.true_list # JMP_NONE \/ e.false_list # JMP_NONE
is_prim_expr(e) == e.t = "EXPR_PRIM" /\ ~has_jmp(e)
is_num_expr(e) == e.t = "EXPR_NUM" /\ ~has_jmp(e)
is_str_expr(e) == e.t = "EXPR_STR" /\ ~has_jmp(e)
is_const_expr(e) == ~has_jmp(e) /\ e.t \in {"EXPR_PRIM", "EXPR_NUM", "EXPR_STR"}

\* ------------------------------------------------ parser.c: jump lists

\* patch_jmp on the instruction at 'jmp': the error it raises, or the
\* instruction with (uint32_t) offset in E
patch_ins(ins, jmp, target) ==
    LET offset == target - jmp + JMP_BIAS
    IN  IF offset >= 16777216 THEN [err |-> "control structure too long", ins |-> ins]
        ELSE [err |-> "", ins |-> bc_set_e(ins, offset % 16777216)]

patch_jmp(ps, jmp, target) ==
    IF jmp = JMP_NONE THEN ps
    ELSE LET r == patch_ins(InsAt(ps, jmp), jmp, target)
         IN  IF r.err # "" THEN err_syntax(ps, r.err) ELSE SetIns(ps, jmp, r.ins)

\* emit_jmp: the PC it returns is num_ins before the call
emit_jmp_body(ps) == patch_jmp(emit(ps, ins0(BC("JMP")), -1), num_ins(ps), JMP_NONE)

follow_jmp(ps, jmp) == jmp + bc_e(InsAt(ps, jmp)) - JMP_BIAS

\* the last jump of the list that starts at 'jmp' (the while loop of append_jmp)
RECURSIVE ListEnd(_, _, _)
ListEnd(ps, jmp, fuel) ==
    IF fuel = 0 \/ ~ValidPc(ps, jmp) THEN jmp
    ELSE IF follow_jmp(ps, jmp) = JMP_NONE THEN jmp
    ELSE ListEnd(ps, follow_jmp(ps, jmp), fuel - 1)

\* the PCs of the jump list that starts at 'jmp', in order
RECURSIVE JmpList(_, _, _)
JmpList(ps, jmp, fuel) ==
    IF jmp = JMP_NONE \/ fuel = 0 \/ ~ValidPc(ps, jmp) THEN <<>>
    ELSE <<jmp>> \o JmpList(ps, follow_jmp(ps, jmp), fuel - 1)

\* append_jmp has made p2 of ps: is the list at the new head the list to_add
\* followed by the list head?
Appended(ps, p2, head, to_add, new_head) ==
    Note(p2, JmpList(p2, new_head, num_ins(ps) + 1)
                # JmpList(ps, to_add, num_ins(ps) + 1) \o JmpList(ps, head, num_ins(ps) + 1),
         "append_jmp drops a jump")

\* Result [p, head]
append_jmp_body(ps, head, to_add) ==
    IF to_add = JMP_NONE THEN [p |-> ps, head |-> head]
    ELSE IF head = JMP_NONE THEN [p |-> ps, head |-> to_add]
    ELSE LET last == ListEnd(ps, to_add, num_ins(ps) + 1)
         IN  IF ~ValidPc(ps, last) \/ follow_jmp(ps, last) # JMP_NONE
             THEN [p |-> undefined(ps, "append_jmp walks off the jump list"),
                   head |-> head]
             ELSE [p |-> Appended(ps, patch_jmp(ps, last, head), head, to_add, last),
                   head |-> last]

CondPc(jmp) == IF jmp > 0 THEN jmp - 1 ELSE 0

\* the instruction discard_val and patch_val are about to write is a JMP:
\* the one before 'jmp', or 'jmp' itself at PC 0
CondIsJmp(ps, jmp) ==
    Note(ps, bc_op(InsAt(ps, CondPc(jmp))) = BC("JMP"),
         IF CondPc(jmp) = jmp THEN "the value of a jump is the JMP itself"
         ELSE "the value of a jump is another JMP")

\* a walk along a jump list stands on 'head'
OnList(ps, head) ==
    Note(ps, bc_op(InsAt(ps, head)) # BC("JMP"), "a jump list holds a PC that is no JMP")

\* Result [p, r]
discard_val(ps, jmp) ==
    LET cond == InsAt(ps, CondPc(jmp))
        op == bc_op(cond)
    IN  IF op = BC("ISTC") \/ op = BC("ISFC")
        THEN [p |-> SetIns(ps, CondPc(jmp), bc_set_a(bc_set_op(cond, op - 1), 0)),
              r |-> 1]
        ELSE IF bc_a(cond) = NO_SLOT
        THEN [p |-> SetIns(CondIsJmp(ps, jmp), CondPc(jmp), ins0(BC("NOP"))), r |-> 1]
        ELSE [p |-> ps, r |-> 0]

\* patch_val leaving the destination of the value as it was emitted
patch_val_unset(ps, jmp, dst) ==
    LET cond == InsAt(ps, CondPc(jmp))
        op == bc_op(cond)
    IN  IF dst = NO_SLOT THEN discard_val(ps, jmp)
        ELSE IF op = BC("ISTC") \/ op = BC("ISFC") \/ bc_a(cond) = NO_SLOT
        THEN [p |-> ps, r |-> 1]
        ELSE [p |-> ps, r |-> 0]

\* Result [p, r]
patch_val(ps, jmp, dst) ==
    LET cond == InsAt(ps, CondPc(jmp))
        op == bc_op(cond)
    IN  IF dst = NO_SLOT THEN discard_val(ps, jmp)
        ELSE IF op = BC("ISTC") \/ op = BC("ISFC") \/ bc_a(cond) = NO_SLOT
        THEN [p |-> SetIns(CondIsJmp(ps, jmp), CondPc(jmp), bc_set_a(cond, dst)), r |-> 1]
        ELSE [p |-> ps, r |-> 0]

RECURSIVE DiscardVals(_, _, _)
DiscardVals(ps, head, fuel) ==
    IF head = JMP_NONE THEN ps
    ELSE IF fuel = 0 \/ ~ValidPc(ps, head)
    THEN undefined(ps, "discard_vals walks off the jump list")
    ELSE LET ps1 == discard_val(OnList(ps, head), head).p
         IN  DiscardVals(ps1, follow_jmp(ps1, head), fuel - 1)

discard_vals_body(ps, head) == DiscardVals(ps, head, num_ins(ps) + 1)

RECURSIVE PatchJmpsAndVals(_, _, _, _, _, _)
PatchJmpsAndVals(ps, head, jmp_target, dst, val_target, fuel) ==
    IF head = JMP_NONE THEN ps
    ELSE IF fuel = 0 \/ ~ValidPc(ps, head)
    THEN undefined(ps, "patch_jmps_and_vals walks off the jump list")
    ELSE LET next == follow_jmp(ps, head)
             pv == patch_val(OnList(ps, head), head, dst)
             ps1 == IF pv.r = 1 THEN patch_jmp(pv.p, head, val_target)
                    ELSE patch_jmp(pv.p, head, jmp_target)
         IN  PatchJmpsAndVals(ps1, next, jmp_target, dst, val_target, fuel - 1)

patch_jmps_and_vals_body(ps, head, jmp_target, dst, val_target) ==
    PatchJmpsAndVals(ps, head, jmp_target, dst, val_target, num_ins(ps) + 1)

patch_jmps_body(ps, head, target) == patch_jmps_and_vals(ps, head, target, NO_SLOT, target)

\* patch_jmps_here leaving the jump list as it is
patch_jmps_skipped(ps, head) == ps

patch_jmps_here(ps, head) == patch_jmps(ps, head, num_ins(ps))

RECURSIVE JmpsNeedFallThrough(_, _, _)
JmpsNeedFallThrough(ps, head, fuel) ==
    IF head = JMP_NONE \/ fuel = 0 \/ ~ValidPc(ps, head) THEN FALSE
    ELSE LET cond == InsAt(ps, CondPc(head))
             op == bc_op(cond)
         IN  IF ~(op = BC("ISTC") \/ op = BC("ISFC") \/ bc_a(cond) = NO_SLOT)
             THEN TRUE
             ELSE JmpsNeedFallThrough(ps, follow_jmp(ps, head), fuel - 1)

jmps_need_fall_through(ps, head) == JmpsNeedFallThrough(ps, head, num_ins(ps) + 1)


\* ------------------------------------- parser.c: expressions to stack slots

discharge(ps, e) ==
    CASE e.t = "EXPR_LOCAL" -> [e EXCEPT !.t = "EXPR_NON_RELOC"]
      [] e.t = "EXPR_CALL" ->
            [e EXCEPT !.t = "EXPR_NON_RELOC", !.slot = bc_a(InsAt(ps, e.pc))]
      [] OTHER -> e

\* is_int(n, &i) && i <= UINT16_MAX (numbers of the model are integers)
FitsKint(n) == n <= UINT16_MAX

\* to_slot, the switch on the expression's type
ToSlotValue(ps, e, dst) ==
    CASE e.t = "EXPR_PRIM" -> emit(ps, ins2(BC("KPRIM"), dst, e.tag), e.tk.line)
      [] e.t = "EXPR_NUM" ->
            IF FitsKint(e.num)
            THEN emit(ps, ins2(BC("KINT"), dst, e.num % 65536), e.tk.line)
            ELSE emit(emit_k(ps, n2v(e.num)),
                      ins2(BC("KNUM"), dst, num_k(ps) % 65536), e.tk.line)
      [] e.t = "EXPR_STR" ->
            emit(emit_k(ps, str2v(e.s)),
                 ins2(BC("KSTR"), dst, num_k(ps) % 65536), e.tk.line)
      [] e.t = "EXPR_NON_RELOC" ->
            IF dst # e.slot THEN emit(ps, ins2(BC("MOV"), dst, e.slot), e.tk.line)
            ELSE ps
      [] e.t = "EXPR_RELOC" -> SetIns(ps, e.pc, bc_set_a(InsAt(ps, e.pc), dst))
      [] OTHER -> ps

\* to_slot, the jump lists of the expression: the true/false tail and patching
ToSlotJmps(ps, e, dst) ==
    LET need == jmps_need_fall_through(ps, e.true_list)
                  \/ jmps_need_fall_through(ps, e.false_list)
        before == IF e.t # "EXPR_JMP" THEN num_ins(ps) ELSE JMP_NONE
        p1 == IF e.t # "EXPR_JMP" THEN emit_jmp(ps) ELSE ps
        false_case == IF need THEN num_ins(p1) ELSE JMP_NONE
        p2 == emit(p1, ins2(BC("KPRIM"), dst, TAG_FALSE), e.tk.line)
        middle == num_ins(p2)
        p3 == emit_jmp(p2)
        true_case == IF need THEN num_ins(p3) ELSE JMP_NONE
        p4 == emit(p3, ins2(BC("KPRIM"), dst, TAG_TRUE), e.tk.line)
        p5 == patch_jmps_here(p4, before)
        p6 == patch_jmps_here(p5, middle)
        p7 == IF need THEN p6 ELSE ps
        after == num_ins(p7)
        p8 == patch_jmps_and_vals(p7, e.true_list, true_case, dst, after)
    IN  patch_jmps_and_vals(p8, e.false_list, false_case, dst, after)

\* Result [p, e]
to_slot_body(ps, e0, dst) ==
    LET e1 == discharge(ps, e0)
        p1 == ToSlotValue(ps, e1, dst)
        aj == IF e1.t = "EXPR_JMP" THEN append_jmp(p1, e1.true_list, e1.pc)
              ELSE [p |-> p1, head |-> e1.true_list]
        e2 == [e1 EXCEPT !.true_list = aj.head]
        p2 == IF has_jmp(e2) THEN ToSlotJmps(aj.p, e2, dst) ELSE aj.p
    IN  [p |-> p2, e |-> [expr_new("EXPR_NON_RELOC", e2.tk) EXCEPT !.slot = dst]]

\* free_expr_slot releasing the slot of every expression held in a slot, a
\* local's included
free_expr_slot_of_local(ps, e) ==
    IF e.t = "EXPR_NON_RELOC"
    THEN LET p1 == SetF(ps, [F(ps) EXCEPT !.num_stack = @ - 1])
         IN  assert(p1, e.slot = F(p1).num_stack, "free_expr_slot")
    ELSE ps

free_expr_slot(ps, e) ==
    IF e.t = "EXPR_NON_RELOC" /\ e.slot >= F(ps).num_locals
    THEN LET p1 == SetF(ps, [F(ps) EXCEPT !.num_stack = @ - 1])
         IN  Note(assert(p1, e.slot = F(p1).num_stack, "free_expr_slot"),
                  e.slot = F(p1).num_stack, "free_expr_slot releases the stack top")
    ELSE ps

\* Result [p, e]; the slot it returns is e.slot
to_next_slot_body(ps, e0) ==
    LET e1 == discharge(ps, e0)
        p1 == free_expr_slot(ps, e1)
        dst == F(p1).num_stack % 256
        p2 == reserve_slots(p1, 1)
    IN  to_slot(p2, e1, dst)

\* Result [p, e]; the slot it returns is e.slot
to_any_slot_body(ps, e0) ==
    LET e1 == discharge(ps, e0)
    IN  IF e1.t = "EXPR_NON_RELOC" /\ ~(has_jmp(e1) /\ e1.slot < F(ps).num_locals)
        THEN to_slot(ps, e1, e1.slot)
        ELSE to_next_slot(ps, e1)

\* Result [p, e, r]: r is the operand the instruction gets
inline_uint8_num(ps, e) ==
    IF is_num_expr(e) /\ num_k(ps) <= UINT8_MAX
    THEN [p |-> emit_k(ps, n2v(e.num)), e |-> e, r |-> num_k(ps) % 256]
    ELSE LET ts == to_any_slot(ps, e) IN [p |-> ts.p, e |-> ts.e, r |-> ts.e.slot]

inline_uint16_num(ps, e) ==
    IF is_num_expr(e)
    THEN [p |-> emit_k(ps, n2v(e.num)), e |-> e, r |-> num_k(ps) % 65536]
    ELSE LET ts == to_any_slot(ps, e) IN [p |-> ts.p, e |-> ts.e, r |-> ts.e.slot]

inline_uint16_const(ps, e) ==
    IF is_prim_expr(e) THEN [p |-> ps, e |-> e, r |-> e.tag]
    ELSE IF is_str_expr(e)
    THEN [p |-> emit_k(ps, str2v(e.s)), e |-> e, r |-> num_k(ps) % 65536]
    ELSE inline_uint16_num(ps, e)

INVERT_OP(op) ==
    LET n == OpName(op)
    IN  CASE n = "IST" -> BC("ISF")      [] n = "ISTC" -> BC("ISFC")
          [] n = "ISF" -> BC("IST")      [] n = "ISFC" -> BC("ISTC")
          [] n = "EQVV" -> BC("NEQVV")   [] n = "EQVN" -> BC("NEQVN")
          [] n = "EQVP" -> BC("NEQVP")   [] n = "EQVS" -> BC("NEQVS")
          [] n = "NEQVV" -> BC("EQVV")   [] n = "NEQVN" -> BC("EQVN")
          [] n = "NEQVP" -> BC("EQVP")   [] n = "NEQVS" -> BC("EQVS")
          [] n = "LTVV" -> BC("GEVV")    [] n = "LTVN" -> BC("GEVN")
          [] n = "LEVV" -> BC("GTVV")    [] n = "LEVN" -> BC("GTVN")
          [] n = "GTVV" -> BC("LEVV")    [] n = "GTVN" -> BC("LEVN")
          [] n = "GEVV" -> BC("LTVV")    [] n = "GEVN" -> BC("LTVN")
          [] OTHER -> 0

invert_cond_body(ps, jmp) ==
    SetIns(ps, jmp - 1, bc_set_op(InsAt(ps, jmp - 1), INVERT_OP(bc_op(InsAt(ps, jmp - 1)))))


\* ------------------------------------------- parser.c: operator tables

PREC_MIN == 0
PREC_UNARY == 7

BINOP_PREC(t) ==
    CASE t \in {"+", "-"} -> 5
      [] t \in {"*", "/", "%"} -> 6
      [] t = "^" -> 8
      [] t \in {"==", "~=", "<", "<=", ">", ">="} -> 3
      [] t = "and" -> 2
      [] t = "or" -> 1
      [] OTHER -> 0

UNOP_PREC(t) == IF t \in {"-", "not"} THEN PREC_UNARY ELSE 0
IS_COMMUTATIVE(t) == IF t \in {"+", "*", "==", "~="} THEN 1 ELSE 0
IS_RASSOC(t) == IF t = "^" THEN 1 ELSE 0
UNOP_BC(t) == IF t = "-" THEN BC("NEG") ELSE IF t = "not" THEN BC("NOT") ELSE 0

BINOP_BC(t) ==
    CASE t = "+" -> BC("ADDVV")   [] t = "-" -> BC("SUBVV")
      [] t = "*" -> BC("MULVV")   [] t = "/" -> BC("DIVVV")
      [] t = "%" -> BC("MODVV")   [] t = "^" -> BC("POW")
      [] t = "==" -> BC("EQVV")   [] t = "~=" -> BC("NEQVV")
      [] t = "<" -> BC("LTVV")    [] t = "<=" -> BC("LEVV")
      [] t = ">" -> BC("GTVV")    [] t = ">=" -> BC("GEVV")
      [] OTHER -> BC("NOP")

INVERT_TK(t) ==
    CASE t = "==" -> "~="  [] t = "~=" -> "=="
      [] t = "<" -> ">="   [] t = "<=" -> ">"
      [] t = ">" -> "<="   [] t = ">=" -> "<"
      [] OTHER -> "?"

\* ------------------------------------------- parser.c: unary operators

\* Result [e, r]
fold_unop(op, l) ==
    IF op = "-"
    THEN IF ~is_num_expr(l) THEN [e |-> l, r |-> 0]
         ELSE [e |-> [expr_new("EXPR_NUM", l.tk) EXCEPT !.num = 0 - l.num], r |-> 1]
    ELSE IF ~is_const_expr(l) THEN [e |-> l, r |-> 0]
         ELSE LET tt == ~(l.t = "EXPR_PRIM" /\ l.tag \in {TAG_FALSE, TAG_NIL})
              IN  [e |-> [expr_new("EXPR_PRIM", l.tk) EXCEPT
                            !.tag = IF tt THEN TAG_TRUE ELSE TAG_FALSE],
                   r |-> 1]

\* emit_unop after the fold and the 'not' special cases: the operand goes to a
\* slot and the instruction is emitted without a destination
EmitUnopIns(ps, op, l) ==
    LET ts == to_any_slot(ps, l)
        p1 == free_expr_slot(ts.p, ts.e)
    IN  [p |-> emit(p1, ins2(UNOP_BC(op.t), NO_SLOT, ts.e.slot), op.line),
         e |-> [expr_new("EXPR_RELOC", op) EXCEPT !.pc = num_ins(p1)]]

\* Result [p, e]
emit_unop_body(ps, op, l) ==
    LET fu == fold_unop(op.t, l)
    IN  IF fu.r = 1 THEN [p |-> ps, e |-> fu.e]
        ELSE IF op.t = "not"
        THEN LET l1 == [l EXCEPT !.true_list = l.false_list, !.false_list = l.true_list]
                 p1 == discard_vals(ps, l1.true_list)
                 p2 == discard_vals(p1, l1.false_list)
                 l2 == discharge(p2, l1)
             IN  IF l2.t = "EXPR_JMP" THEN [p |-> invert_cond(p2, l2.pc), e |-> l2]
                 ELSE EmitUnopIns(p2, op, l2)
        ELSE EmitUnopIns(ps, op, l)

\* ------------------------------------------- parser.c: short circuits

\* the tail shared by emit_branch_true's cases.  Result [p, e]
BranchTrueEnd(ps, l, to_add) ==
    LET aj == append_jmp(ps, l.false_list, to_add)
        p1 == patch_jmps(aj.p, l.true_list, num_ins(aj.p))
    IN  [p |-> p1, e |-> [l EXCEPT !.false_list = aj.head, !.true_list = JMP_NONE]]

\* a faulty emit_branch_true: the left operand of `and` is tested the way
\* the left operand of `or` is
emit_branch_true_as_false(ps, l0, line) == emit_branch_false(ps, l0, line)

\* Result [p, e]
emit_branch_true_body(ps, l0, line) ==
    LET l == discharge(ps, l0)
    IN  CASE l.t = "EXPR_PRIM" /\ l.tag \in {TAG_FALSE, TAG_NIL} ->
                LET ts == to_slot(ps, l, NO_SLOT)
                IN  BranchTrueEnd(emit_jmp(ts.p), ts.e, num_ins(ts.p))
          [] l.t \in {"EXPR_PRIM", "EXPR_NUM", "EXPR_STR"}
               /\ ~(l.t = "EXPR_PRIM" /\ l.tag \in {TAG_FALSE, TAG_NIL}) ->
                BranchTrueEnd(ps, l, JMP_NONE)
          [] l.t = "EXPR_JMP" -> BranchTrueEnd(invert_cond(ps, l.pc), l, l.pc)
          [] OTHER ->
                LET ts == to_any_slot(ps, l)
                    p1 == emit(ts.p, ins2(BC("ISFC"), NO_SLOT, ts.e.slot), line)
                    p2 == emit_jmp(p1)
                IN  BranchTrueEnd(free_expr_slot(p2, ts.e), ts.e, num_ins(p1))

\* the tail shared by emit_branch_false's cases.  Result [p, e]
BranchFalseEnd(ps, l, to_add) ==
    LET aj == append_jmp(ps, l.true_list, to_add)
        p1 == patch_jmps(aj.p, l.false_list, num_ins(aj.p))
    IN  [p |-> p1, e |-> [l EXCEPT !.true_list = aj.head, !.false_list = JMP_NONE]]

\* Result [p, e].  The EXPR_PRIM case has no break: false and nil fall through
\* to the code of EXPR_NUM and EXPR_STR as true does.
emit_branch_false_body(ps, l0, line) ==
    LET l == discharge(ps, l0)
    IN  CASE l.t \in {"EXPR_PRIM", "EXPR_NUM", "EXPR_STR"} ->
                LET ts == to_slot(ps, l, NO_SLOT)
                IN  BranchFalseEnd(emit_jmp(ts.p), ts.e, num_ins(ts.p))
          [] l.t = "EXPR_JMP" -> BranchFalseEnd(ps, l, l.pc)
          [] OTHER ->
                LET ts == to_any_slot(ps, l)
                    p1 == emit(ts.p, ins2(BC("ISTC"), NO_SLOT, ts.e.slot), line)
                    p2 == emit_jmp(p1)
                IN  BranchFalseEnd(free_expr_slot(p2, ts.e), ts.e, num_ins(p1))


\* ------------------------------------------- parser.c: binary operators

ARITH_TK == {"+", "-", "*", "/", "%", "^"}
EQ_TK == {"==", "~="}
REL_TK == {"<", "<=", ">", ">="}

\* Result [p, e]
emit_binop_left_body(ps, op, l) ==
    CASE op.t \in ARITH_TK \cup REL_TK ->
            IF ~is_num_expr(l) THEN to_any_slot(ps, l) ELSE [p |-> ps, e |-> l]
      [] op.t \in EQ_TK ->
            IF ~is_const_expr(l) THEN to_any_slot(ps, l) ELSE [p |-> ps, e |-> l]
      [] op.t = "and" -> emit_branch_true(ps, l, op.line)
      [] op.t = "or" -> emit_branch_false(ps, l, op.line)
      [] OTHER -> [p |-> assert0(ps, "emit_binop_left"), e |-> l]

\* numbers are integers in this model; the token alphabet of the programs
\* holds + - * only, so that every result is exact
ArithValue(t, a, b) ==
    CASE t = "+" -> a + b
      [] t = "-" -> a - b
      [] t = "*" -> a * b
      [] OTHER -> 0

\* Result [e, r]
fold_arith(op, l, r) ==
    IF ~is_num_expr(l) \/ ~is_num_expr(r) THEN [e |-> l, r |-> 0]
    ELSE [e |-> [expr_new("EXPR_NUM", op) EXCEPT !.num = ArithValue(op.t, l.num, r.num)],
          r |-> 1]

\* frees the two operand slots, the one on top first
FreeOperands(ps, first_is_top, ll, rr) ==
    IF first_is_top
    THEN free_expr_slot(free_expr_slot(ps, ll), rr)
    ELSE free_expr_slot(free_expr_slot(ps, rr), ll)

\* Result [p, e]
emit_arith_body(ps, op, l, r) ==
    LET fa == fold_arith(op, l, r)
        swap == IS_COMMUTATIVE(op.t) = 1 /\ l.t # "EXPR_NON_RELOC"
        ll0 == IF swap THEN r ELSE l
        rr0 == IF swap THEN l ELSE r
        cr == IF op.t = "^"
              THEN LET ts == to_any_slot(ps, rr0) IN [p |-> ts.p, e |-> ts.e, r |-> ts.e.slot]
              ELSE inline_uint8_num(ps, rr0)
        br == IF op.t = "^"
              THEN LET ts == to_any_slot(cr.p, ll0) IN [p |-> ts.p, e |-> ts.e, r |-> ts.e.slot]
              ELSE inline_uint8_num(cr.p, ll0)
        p1 == FreeOperands(br.p, br.r > cr.r, br.e, cr.e)
        bc == BINOP_BC(op.t) + (IF cr.e.t = "EXPR_NUM" THEN 1 ELSE 0)
                             + (IF br.e.t = "EXPR_NUM" THEN 2 ELSE 0)
    IN  IF fa.r = 1 THEN [p |-> ps, e |-> fa.e]
        ELSE [p |-> emit(p1, ins3(bc, NO_SLOT, br.r, cr.r), op.line),
              e |-> [expr_new("EXPR_RELOC", op) EXCEPT !.pc = num_ins(p1)]]

\* Result [e, r]
fold_eq(op, l, r) ==
    IF ~is_const_expr(l) \/ ~is_const_expr(r) THEN [e |-> l, r |-> 0]
    ELSE LET same == CASE l.t = "EXPR_PRIM" -> l.tag = r.tag
                       [] l.t = "EXPR_NUM" -> l.num = r.num
                       [] OTHER -> l.s = r.s
             v == IF l.t = r.t THEN (op.t = "~=") # same ELSE FALSE
         IN  [e |-> [expr_new("EXPR_PRIM", op) EXCEPT
                       !.tag = IF v THEN TAG_TRUE ELSE TAG_FALSE],
              r |-> 1]

\* the comparison and its jump, shared by emit_eq and emit_rel.  Result [p, e]
EmitCmpJmp(ps, op, bc, a, d) ==
    LET p1 == emit(ps, ins2(bc, a, d), op.line)
    IN  [p |-> emit_jmp(p1),
         e |-> [expr_new("EXPR_JMP", op) EXCEPT !.pc = num_ins(p1)]]

\* Result [p, e]
emit_eq_body(ps, op, l, r) ==
    LET fe == fold_eq(op, l, r)
        swap == l.t # "EXPR_NON_RELOC"
        ll0 == IF swap THEN r ELSE l
        rr0 == IF swap THEN l ELSE r
        dr == inline_uint16_const(ps, rr0)
        ar == to_any_slot(dr.p, ll0)
        p1 == FreeOperands(ar.p, ar.e.slot > dr.r, ar.e, dr.e)
        bc == BINOP_BC(op.t) + (CASE dr.e.t = "EXPR_PRIM" -> 1
                                  [] dr.e.t = "EXPR_NUM" -> 2
                                  [] dr.e.t = "EXPR_STR" -> 3
                                  [] OTHER -> 0)
    IN  IF fe.r = 1 THEN [p |-> ps, e |-> fe.e]
        ELSE EmitCmpJmp(p1, op, bc, ar.e.slot, dr.r)

\* Result [e, r]
fold_rel(op, l, r) ==
    IF ~is_num_expr(l) \/ ~is_num_expr(r) THEN [e |-> l, r |-> 0]
    ELSE LET v == CASE op.t = "<" -> l.num < r.num
                    [] op.t = "<=" -> l.num <= r.num
                    [] op.t = ">" -> l.num > r.num
                    [] OTHER -> l.num >= r.num
         IN  [e |-> [expr_new("EXPR_PRIM", op) EXCEPT
                       !.tag = IF v THEN TAG_TRUE ELSE TAG_FALSE],
              r |-> 1]

\* Result [p, e]
emit_rel_body(ps, op, l, r) ==
    LET fr == fold_rel(op, l, r)
        swap == l.t # "EXPR_NON_RELOC"
        op_t == IF swap THEN INVERT_TK(op.t) ELSE op.t
        ll0 == IF swap THEN r ELSE l
        rr0 == IF swap THEN l ELSE r
        dr == inline_uint16_num(ps, rr0)
        ar == to_any_slot(dr.p, ll0)
        p1 == FreeOperands(ar.p, ar.e.slot > dr.r, ar.e, dr.e)
        bc == BINOP_BC(op_t) + (IF dr.e.t = "EXPR_NUM" THEN 1 ELSE 0)
    IN  IF fr.r = 1 THEN [p |-> ps, e |-> fr.e]
        ELSE EmitCmpJmp(p1, op, bc, ar.e.slot, dr.r)

\* Result [p, e]
emit_and(ps, l, r0) ==
    LET p0 == assert(ps, l.true_list = JMP_NONE, "emit_and")
        r == discharge(p0, r0)
        aj == append_jmp(p0, r.false_list, l.false_list)
    IN  [p |-> aj.p, e |-> [r EXCEPT !.false_list = aj.head]]

\* Result [p, e]
emit_or(ps, l, r0) ==
    LET p0 == assert(ps, l.false_list = JMP_NONE, "emit_or")
        r == discharge(p0, r0)
        aj == append_jmp(p0, r.true_list, l.true_list)
    IN  [p |-> aj.p, e |-> [r EXCEPT !.true_list = aj.head]]

\* Result [p, e]
emit_binop_body(ps, op, l, r) ==
    CASE op.t \in ARITH_TK -> emit_arith(ps, op, l, r)
      [] op.t \in EQ_TK -> emit_eq(ps, op, l, r)
      [] op.t \in REL_TK -> emit_rel(ps, op, l, r)
      [] op.t = "and" -> emit_and(ps, l, r)
      [] op.t = "or" -> emit_or(ps, l, r)
      [] OTHER -> [p |-> assert0(ps, "emit_binop"), e |-> l]


\* ------------------------------------------- parser.c: expressions

\* Result [p, e]: EXPR_LOCAL for the innermost local of that name
find_var(ps, name) ==
    LET f == F(ps)
        hits == {i \in 1..f.num_locals : f.locals[i] = name.s}
        top == CHOOSE i \in hits : \A j \in hits : j <= i
    IN  IF hits = {} THEN [p |-> assert0(ps, "find_var"), e |-> expr_new("EXPR_LOCAL", name)]
        ELSE [p |-> ps, e |-> [expr_new("EXPR_LOCAL", name) EXCEPT !.slot = top - 1]]

\* one turn of the loop of parse_params; going is FALSE once the loop is left
ParseParam(ps) ==
    IF peek_tk(ps).t # "ident" THEN [p |-> ps, going |-> FALSE]
    ELSE LET name == peek_tk(ps)
             p1 == reserve_slots(def_local(read_tk(ps), name.s), 1)
         IN  IF peek_tk(p1).t = "," THEN [p |-> read_tk(p1), going |-> TRUE]
             ELSE [p |-> p1, going |-> FALSE]

\* up to n turns of the loop, the first half of them before the second
RECURSIVE ParseParams(_, _)
ParseParams(ps, n) ==
    IF n = 1 THEN ParseParam(ps)
    ELSE LET h == ParseParams(ps, n \div 2)
         IN  IF InOrder(<<h>>) /\ h.going THEN ParseParams(h.p, n - (n \div 2)) ELSE h

\* the loop of parse_params: reserve_slots ends it before UINT8_MAX turns
ParseParamsLoop(ps) == ParseParams(ps, UINT8_MAX + 1).p

\* Result [p, r]: num_params is never incremented
parse_params(ps) ==
    [p |-> expect_tk(ParseParamsLoop(expect_tk(ps, "(")), ")"), r |-> 0]


\* Result [p, e]
parse_fn_body_body(ps, fn_tk, fn_name) ==
    LET idx_fn == Len(ps.fns) + 1
        p1 == enter_fn(ps, fn_name, fn_tk.line)
        pp == parse_params(p1)
        p2 == SetFn(pp.p, [CurFn(pp.p) EXCEPT !.num_params = pp.r])
        p3 == parse_block(p2)
        end_tk == peek_tk(p3)
        p4 == exit_fn(expect_tk(p3, "end"), end_tk.line)
        p5 == emit_k(p4, fn2v(idx_fn))
        res == [p |-> emit(p5, ins2(BC("KFN"), NO_SLOT, num_k(p4)), fn_tk.line),
                e |-> [expr_new("EXPR_RELOC", fn_tk) EXCEPT !.pc = num_ins(p5)]]
    IN  IF InOrder(<<p1, pp, p2, p3, p4, p5>>) THEN res ELSE res

\* Result [p, e]
parse_primary_expr_body(ps) ==
    LET tk == peek_tk(ps)
    IN  CASE tk.t = "ident" ->
                LET fv == find_var(ps, tk) IN [p |-> read_tk(fv.p), e |-> fv.e]
          [] tk.t = "(" ->
                LET sub == parse_subexpr(read_tk(ps), PREC_MIN)
                IN  IF InOrder(<<sub>>) THEN [p |-> expect_tk(sub.p, ")"), e |-> sub.e]
                    ELSE sub
          [] OTHER -> [p |-> err_syntax(ps, "unexpected symbol"),
                       e |-> expr_new("EXPR_PRIM", tk)]

\* Result [p, e]
parse_call_expr_body(ps, l) ==
    LET fs == to_next_slot(ps, l)
        base == fs.e.slot
        call == peek_tk(fs.p)
        p1 == expect_tk(fs.p, "(")
        has_args == peek_tk(p1).t # ")"
        el == parse_expr_list(p1)
        p2 == IF has_args THEN to_next_slot(el.p, el.e).p ELSE p1
        num_args == IF has_args THEN el.n ELSE 0
        p3 == expect_tk(p2, ")")
        p4 == emit(p3, ins3(BC("CALL"), base, num_args, 1), call.line)
        res == [p |-> SetF(p4, [F(p4) EXCEPT !.num_stack = base + 1]),
                e |-> [expr_new("EXPR_CALL", call) EXCEPT !.pc = num_ins(p3)]]
    IN  IF InOrder(<<fs, p1, p2, p3, p4>>) THEN res ELSE res

\* parse_suffix in a loop: the only suffix is a call.  Result [p, e]
parse_suffixes_body(ps, l) ==
    IF peek_tk(ps).t = "("
    THEN LET c == parse_call_expr(ps, l)
         IN  IF InOrder(<<c>>) THEN parse_suffixes(c.p, c.e) ELSE c
    ELSE [p |-> ps, e |-> l]

\* Result [p, e]
parse_suffixed_expr(ps) ==
    LET pe == parse_primary_expr(ps)
    IN  IF InOrder(<<pe>>) THEN parse_suffixes(pe.p, pe.e) ELSE pe

\* Result [p, e]
parse_operand(ps) ==
    LET tk == peek_tk(ps)
    IN  CASE tk.t = "nil" ->
                [p |-> read_tk(ps), e |-> [expr_new("EXPR_PRIM", tk) EXCEPT !.tag = TAG_NIL]]
          [] tk.t = "true" ->
                [p |-> read_tk(ps), e |-> [expr_new("EXPR_PRIM", tk) EXCEPT !.tag = TAG_TRUE]]
          [] tk.t = "false" ->
                [p |-> read_tk(ps), e |-> [expr_new("EXPR_PRIM", tk) EXCEPT !.tag = TAG_FALSE]]
          [] tk.t = "num" ->
                [p |-> read_tk(ps), e |-> [expr_new("EXPR_NUM", tk) EXCEPT !.num = tk.n]]
          [] tk.t = "str" ->
                [p |-> read_tk(ps), e |-> [expr_new("EXPR_STR", tk) EXCEPT !.s = tk.s]]
          [] tk.t = "function" -> parse_fn_body(read_tk(ps), tk, "")
          [] OTHER -> parse_suffixed_expr(ps)

\* the binary operator loop of parse_subexpr.  Result [p, e]
RECURSIVE SubexprLoop(_, _, _)
SubexprLoop(ps, l, min_prec) ==
    LET binop == peek_tk(ps)
        bl == emit_binop_left(read_tk(ps), binop, l)
        r == parse_subexpr(bl.p, BINOP_PREC(binop.t) - IS_RASSOC(binop.t))
        bo == emit_binop(r.p, binop, bl.e, r.e)
    IN  IF BINOP_PREC(binop.t) > min_prec /\ InOrder(<<bl, r, bo>>)
        THEN SubexprLoop(bo.p, bo.e, min_prec)
        ELSE [p |-> ps, e |-> l]

\* Result [p, e]
parse_subexpr_body(ps, min_prec) ==
    LET unop == peek_tk(ps)
        sub == parse_subexpr(read_tk(ps), UNOP_PREC(unop.t))
        first == IF UNOP_PREC(unop.t) # 0 THEN emit_unop(sub.p, unop, sub.e)
                 ELSE parse_operand(ps)
    IN  IF InOrder(<<first>>) THEN SubexprLoop(first.p, first.e, min_prec) ELSE first

parse_expr(ps) == parse_subexpr(ps, PREC_MIN)

\* Result [p, e, n]
RECURSIVE ExprListLoop(_, _, _)
ExprListLoop(ps, e, n) ==
    IF peek_tk(ps).t # "," THEN [p |-> ps, e |-> e, n |-> n]
    ELSE LET p1 == to_next_slot(read_tk(ps), e).p
             x == parse_expr(p1)
         IN  IF InOrder(<<p1, x>>) THEN ExprListLoop(x.p, x.e, n + 1)
             ELSE [p |-> ps, e |-> e, n |-> n]

parse_expr_list_body(ps) ==
    LET x == parse_expr(ps)
    IN  IF InOrder(<<x>>) THEN ExprListLoop(x.p, x.e, 1) ELSE [p |-> ps, e |-> x.e, n |-> 1]


\* Result [p, r]: the condition's false jump list
parse_cond_expr_body(ps) ==
    LET x == parse_expr(ps)
        cond == IF x.e.t = "EXPR_PRIM" /\ x.e.tag = TAG_NIL
                THEN [x.e EXCEPT !.tag = TAG_FALSE] ELSE x.e
        bt == emit_branch_true(x.p, cond, cond.tk.line)
    IN  IF InOrder(<<x, bt>>) THEN [p |-> bt.p, r |-> bt.e.false_list]
        ELSE [p |-> ps, r |-> JMP_NONE]

\* ------------------------------------------- parser.c: statements

parse_local_fn(ps) ==
    LET fn_tk == peek_tk(ps)
        p1 == expect_tk(ps, "function")
        name == peek_tk(p1)
        p2 == def_local(expect_tk(p1, "ident"), name.s)
        body == parse_fn_body(p2, fn_tk, name.s)
    IN  IF InOrder(<<p1, p2, body>>) THEN to_next_slot(body.p, body.e).p ELSE ps

emit_knil(ps, base, n, line) ==
    reserve_slots(
        IF n = 1 THEN emit(ps, ins2(BC("KPRIM"), base, TAG_NIL), line)
        ELSE emit(ps, ins2(BC("KNIL"), base, base + n - 1), line),
        n)

adjust_assign(ps, num_vars, num_exprs, r, line) ==
    LET extra == num_vars - num_exprs
        num_rets == IF extra < 0 THEN 0 ELSE extra + 1
        p1 == to_next_slot(ps, r).p
    IN  IF r.t = "EXPR_CALL"
        THEN SetIns(ps, r.pc, bc_set_c(InsAt(ps, r.pc), num_rets))
        ELSE IF extra > 0
             THEN emit_knil(p1, (F(p1).num_locals - extra) % 256, extra, line)
             ELSE p1

\* Result [p, names]
RECURSIVE LocalLhsLoop(_, _)
LocalLhsLoop(ps, names) ==
    IF peek_tk(ps).t # "ident" THEN [p |-> ps, names |-> names]
    ELSE LET name == peek_tk(ps)
             p1 == read_tk(ps)
             p2 == IF Len(names) >= LUAI_MAXVARS
                   THEN err_syntax(p1, "too many local variables in function")
                   ELSE p1
             ns == Append(names, name.s)
         IN  IF peek_tk(p2).t # "," THEN [p |-> p2, names |-> ns]
             ELSE LocalLhsLoop(read_tk(p2), ns)

parse_local_lhs(ps) == LocalLhsLoop(ps, <<>>)

RECURSIVE DefLocals(_, _, _)
DefLocals(ps, names, i) ==
    IF i > Len(names) THEN ps ELSE DefLocals(def_local(ps, names[i]), names, i + 1)

parse_local_var_body(ps) ==
    LET lhs == parse_local_lhs(ps)
        assign == peek_tk(lhs.p)
        el == parse_expr_list(expect_tk(lhs.p, "="))
        p1 == DefLocals(el.p, lhs.names, 1)
        p2 == adjust_assign(p1, Len(lhs.names), el.n, el.e, assign.line)
    IN  IF InOrder(<<lhs, el, p1, p2>>)
        THEN SetF(p2, [F(p2) EXCEPT !.num_stack = F(p2).num_locals]) ELSE ps

parse_local_body(ps) ==
    LET p1 == expect_tk(ps, "local")
    IN  IF peek_tk(p1).t = "function" THEN parse_local_fn(p1) ELSE parse_local_var(p1)

\* Result [p, vars]
RECURSIVE AssignLhsLoop(_, _)
AssignLhsLoop(ps, vs) ==
    IF peek_tk(ps).t # "," THEN [p |-> ps, vars |-> vs]
    ELSE LET p1 == read_tk(ps)
             p2 == IF Len(vs) >= LUAI_MAXVARS
                   THEN err_syntax(p1, "too many variables in assignment")
                   ELSE p1
             x == parse_suffixed_expr(p2)
             p3 == IF x.e.t # "EXPR_LOCAL"
                   THEN err_syntax(x.p, "expected variable in assignment")
                   ELSE x.p
         IN  AssignLhsLoop(p3, Append(vs, x.e))

parse_assign_lhs(ps, l) ==
    AssignLhsLoop(IF l.t # "EXPR_LOCAL" THEN err_syntax(ps, "unexpected symbol") ELSE ps,
                  <<l>>)

\* the moves of parse_assign, from variable i (counted from 0) down to 0
RECURSIVE AssignMoves(_, _, _, _, _)
AssignMoves(ps, vs, num_exprs, i, line) ==
    IF i < 0 THEN ps
    ELSE LET expr_slot == (F(ps).num_stack - num_exprs + i) % 256
         IN  AssignMoves(emit(ps, ins2(BC("MOV"), vs[i + 1].slot, expr_slot), line),
                         vs, num_exprs, i - 1, line)

parse_assign_body(ps, l) ==
    LET lhs == parse_assign_lhs(ps, l)
        num_vars == Len(lhs.vars)
        assign == peek_tk(lhs.p)
        el == parse_expr_list(expect_tk(lhs.p, "="))
        r == discharge(el.p, el.e)
        same == to_slot(free_expr_slot(el.p, r), r, lhs.vars[num_vars].slot).p
        p1 == IF num_vars = el.n THEN same
              ELSE adjust_assign(el.p, num_vars, el.n, el.e, assign.line)
        left == IF num_vars = el.n THEN num_vars - 1 ELSE num_vars
        p2 == AssignMoves(p1, lhs.vars, el.n, left - 1, assign.line)
    IN  IF InOrder(<<lhs, el, p1, p2>>)
        THEN SetF(p2, [F(p2) EXCEPT !.num_stack = F(p2).num_locals]) ELSE ps

parse_call(ps, l) ==
    LET sx == parse_suffixes(ps, l)
        p1 == IF sx.e.t # "EXPR_CALL"
              THEN err_syntax(sx.p, "expected assignment or function call")
              ELSE sx.p
        p2 == SetIns(p1, sx.e.pc, bc_set_c(InsAt(p1, sx.e.pc), 0))
    IN  SetF(p2, [F(p2) EXCEPT !.num_stack = @ - 1])

parse_assign_or_call_body(ps) ==
    LET pe == parse_primary_expr(ps)
    IN  IF ~InOrder(<<pe>>) THEN ps
        ELSE IF peek_tk(pe.p).t \in {",", "="} THEN parse_assign(pe.p, pe.e)
        ELSE parse_call(pe.p, pe.e)


parse_do(ps) ==
    LET p1 == parse_block(expect_tk(ps, "do"))
    IN  IF InOrder(<<p1>>) THEN expect_tk(p1, "end") ELSE ps

\* Result [p, r]: the false jump list that still needs patching
parse_then_body(ps) ==
    LET c == parse_cond_expr(ps)
        p1 == parse_block(expect_tk(c.p, "then"))
    IN  IF InOrder(<<c, p1>>) THEN [p |-> p1, r |-> c.r] ELSE [p |-> ps, r |-> c.r]

\* the elseif loop of parse_if.  Result [p, end_jmps, false_jmps]
RECURSIVE ElseifLoop(_, _, _)
ElseifLoop(ps, end_jmps, false_jmps) ==
    IF peek_tk(ps).t # "elseif"
    THEN [p |-> ps, end_jmps |-> end_jmps, false_jmps |-> false_jmps]
    ELSE LET p1 == read_tk(ps)
             aj == append_jmp(emit_jmp(p1), end_jmps, num_ins(p1))
             th == parse_then(patch_jmps_here(aj.p, false_jmps))
         IN  IF InOrder(<<p1, aj, th>>) THEN ElseifLoop(th.p, aj.head, th.r)
             ELSE [p |-> ps, end_jmps |-> end_jmps, false_jmps |-> false_jmps]

parse_if_body(ps) ==
    LET th == parse_then(expect_tk(ps, "if"))
        lp == ElseifLoop(th.p, JMP_NONE, th.r)
        p1 == read_tk(lp.p)
        a1 == append_jmp(emit_jmp(p1), lp.end_jmps, num_ins(p1))
        a2 == append_jmp(lp.p, lp.end_jmps, lp.false_jmps)
        fin == IF peek_tk(lp.p).t = "else"
               THEN [p |-> parse_block(patch_jmps_here(a1.p, lp.false_jmps)),
                     head |-> a1.head]
               ELSE a2
    IN  IF InOrder(<<th, lp, fin>>)
        THEN patch_jmps_here(expect_tk(fin.p, "end"), fin.head) ELSE ps

\* loop.breaks of the innermost block, read by the loops after exit_block
TopBreaks(ps) == IF F(ps).b = <<>> THEN JMP_NONE ELSE F(ps).b[Len(F(ps).b)].breaks

\* parse_while with the condition's exit patched to the closing JMP itself
parse_while_exit_on_jmp(ps) ==
    LET p1 == expect_tk(ps, "while")
        start == num_ins(p1)
        c == parse_cond_expr(enter_loop(p1))
        p2 == expect_tk(parse_block(expect_tk(c.p, "do")), "end")
        end_jmp == num_ins(p2)
        p3 == patch_jmps(emit_jmp(p2), end_jmp, start)
        p4 == patch_jmps(p3, c.r, end_jmp)
        p5 == exit_block(p4)
    IN  IF InOrder(<<p1, c, p2, p3, p4, p5>>)
        THEN patch_jmps_here(p5, TopBreaks(p4)) ELSE ps

parse_while_body(ps) ==
    LET p1 == expect_tk(ps, "while")
        start == num_ins(p1)
        c == parse_cond_expr(enter_loop(p1))
        p2 == expect_tk(parse_block(expect_tk(c.p, "do")), "end")
        end_jmp == num_ins(p2)
        p3 == patch_jmps(emit_jmp(p2), end_jmp, start)
        p4 == patch_jmps_here(p3, c.r)
        p5 == exit_block(p4)
    IN  IF InOrder(<<p1, c, p2, p3, p4, p5>>)
        THEN patch_jmps_here(p5, TopBreaks(p4)) ELSE ps

parse_repeat_body(ps) ==
    LET p1 == expect_tk(ps, "repeat")
        start == num_ins(p1)
        p2 == expect_tk(parse_block(enter_loop(p1)), "until")
        c == parse_cond_expr(p2)
        p3 == patch_jmps(c.p, c.r, start)
        p4 == exit_block(p3)
    IN  IF InOrder(<<p1, p2, c, p3, p4>>)
        THEN patch_jmps_here(p4, TopBreaks(p3)) ELSE ps

\* parse_break choosing the outermost loop of the function
parse_break_outermost(ps) ==
    LET p1 == expect_tk(ps, "break")
        f == F(p1)
        loops == {i \in 1..Len(f.b) : f.b[i].is_loop = 1}
        loop == CHOOSE i \in loops : \A j \in loops : i <= j
        p2 == emit_jmp(p1)
        aj == append_jmp(p2, f.b[loop].breaks, num_ins(p1))
    IN  IF loops = {} THEN err_syntax(p1, "no loop to break")
        ELSE SetF(aj.p, [F(aj.p) EXCEPT !.b[loop].breaks = aj.head])

parse_break_body(ps) ==
    LET p1 == expect_tk(ps, "break")
        f == F(p1)
        loops == {i \in 1..Len(f.b) : f.b[i].is_loop = 1}
        loop == CHOOSE i \in loops : \A j \in loops : j <= i
        p2 == emit_jmp(p1)
        aj == append_jmp(p2, f.b[loop].breaks, num_ins(p1))
    IN  IF loops = {} THEN err_syntax(p1, "no loop to break")
        ELSE SetF(aj.p, [F(aj.p) EXCEPT !.b[loop].breaks = aj.head])

is_end_of_block(tk) == tk \in {"eof", "end", "elseif", "else", "until"}

parse_return_body(ps) ==
    LET ret == peek_tk(ps)
        p1 == expect_tk(ps, "return")
        next == peek_tk(p1).t
        el == parse_expr_list(p1)
        one == to_any_slot(el.p, el.e)
        many == to_next_slot(el.p, el.e).p
        p2 == IF el.n = 1
              THEN emit(one.p, ins1(BC("RET1"), one.e.slot), ret.line)
              ELSE emit(many, ins2(BC("RET"), F(many).num_locals, el.n), ret.line)
    IN  IF is_end_of_block(next) \/ next = ";"
        THEN emit(p1, ins0(BC("RET0")), ret.line)
        ELSE IF InOrder(<<el, p2>>) THEN SetF(p2, [F(p2) EXCEPT !.num_stack = @ - el.n])
        ELSE ps

\* Make sure each statement cleans up after itself
StmtCleanedUp(ps) == assert(ps, F(ps).num_stack = F(ps).num_locals, "parse_stmt")

parse_stmt_body(ps) ==
    LET t == peek_tk(ps).t
        p1 == CASE t \in {"function", "for"} -> assert0(ps, "parse_stmt")
                [] t = "local" -> parse_local(ps)
                [] t = "do" -> parse_do(ps)
                [] t = "if" -> parse_if(ps)
                [] t = "while" -> parse_while(ps)
                [] t = "repeat" -> parse_repeat(ps)
                [] t = "break" -> parse_break(ps)
                [] t = "return" -> parse_return(ps)
                [] OTHER -> parse_assign_or_call(ps)
    IN  IF InOrder(<<p1>>) THEN StmtCleanedUp(p1) ELSE ps

\* one turn of parse_block's loop: a statement and the ';' after it
StmtAndSemi_body(ps) ==
    LET p1 == parse_stmt(ps)
    IN  IF peek_tk(p1).t = ";" THEN read_tk(p1) ELSE p1

RECURSIVE BlockLoop(_)
BlockLoop(ps) ==
    IF is_end_of_block(peek_tk(ps).t) THEN ps
    ELSE LET p1 == StmtAndSemi(ps)
         IN  IF InOrder(<<p1>>) THEN BlockLoop(p1) ELSE ps

parse_block_body(ps) ==
    LET p1 == BlockLoop(enter_block(ps))
    IN  IF InOrder(<<p1>>) THEN exit_block(p1) ELSE ps


\* the function named what, applied to the parser and the arguments a
\* (a C call has its arguments computed before the callee runs: the test that
\* comes first is never true and only fixes that order)
Do(what, ps, a) ==
    IF ps.err # ps.err \/ a # a THEN ps ELSE
    CASE what = "to_slot" -> to_slot_body(ps, a[1], a[2])
      [] what = "to_next_slot" -> to_next_slot_body(ps, a[1])
      [] what = "to_any_slot" -> to_any_slot_body(ps, a[1])
      [] what = "patch_jmps" -> patch_jmps_body(ps, a[1], a[2])
      [] what = "patch_jmps_and_vals" -> patch_jmps_and_vals_body(ps, a[1], a[2], a[3], a[4])
      [] what = "append_jmp" -> append_jmp_body(ps, a[1], a[2])
      [] what = "discard_vals" -> discard_vals_body(ps, a[1])
      [] what = "emit_jmp" -> emit_jmp_body(ps)
      [] what = "invert_cond" -> invert_cond_body(ps, a[1])
      [] what = "parse_subexpr" -> parse_subexpr_body(ps, a[1])
      [] what = "parse_expr_list" -> parse_expr_list_body(ps)
      [] what = "parse_block" -> parse_block_body(ps)
      [] what = "parse_stmt" -> parse_stmt_body(ps)
      [] what = "StmtAndSemi" -> StmtAndSemi_body(ps)
      [] what = "parse_fn_body" -> parse_fn_body_body(ps, a[1], a[2])
      [] what = "emit_binop" -> emit_binop_body(ps, a[1], a[2], a[3])
      [] what = "emit_binop_left" -> emit_binop_left_body(ps, a[1], a[2])
      [] what = "emit_unop" -> emit_unop_body(ps, a[1], a[2])
      [] what = "emit_branch_true" -> emit_branch_true_body(ps, a[1], a[2])
      [] what = "emit_branch_false" -> emit_branch_false_body(ps, a[1], a[2])
      [] what = "emit_eq" -> emit_eq_body(ps, a[1], a[2], a[3])
      [] what = "emit_rel" -> emit_rel_body(ps, a[1], a[2], a[3])
      [] what = "emit_arith" -> emit_arith_body(ps, a[1], a[2], a[3])
      [] what = "parse_primary_expr" -> parse_primary_expr_body(ps)
      [] what = "parse_suffixes" -> parse_suffixes_body(ps, a[1])
      [] what = "parse_call_expr" -> parse_call_expr_body(ps, a[1])
      [] what = "parse_cond_expr" -> parse_cond_expr_body(ps)
      [] what = "parse_then" -> parse_then_body(ps)
      [] what = "parse_if" -> parse_if_body(ps)
      [] what = "parse_while" -> parse_while_body(ps)
      [] what = "parse_repeat" -> parse_repeat_body(ps)
      [] what = "parse_return" -> parse_return_body(ps)
      [] what = "parse_local" -> parse_local_body(ps)
      [] what = "parse_local_var" -> parse_local_var_body(ps)
      [] what = "parse_assign" -> parse_assign_body(ps, a[1])
      [] what = "parse_assign_or_call" -> parse_assign_or_call_body(ps)
      [] what = "parse_break" -> parse_break_body(ps)

\* parse() up to its block loop: the top-level function scope and block
ParseBegin(ps) == enter_block(enter_fn(ps, "", peek_tk(ps).line))

\* parse() after its block loop
ParseFinish(ps) == exit_fn(exit_block(ps), peek_tk(ps).line)

\* ------------------------------------------------------------- the chunks

\* the values the chunks' literals denote
Vals == {VAL_NIL, VAL_FALSE, VAL_TRUE} \cup {n2v(n) : n \in (MaxNum - 1)..MaxNum}

\* the constants a literal can denote: the primitives, numbers and strings
Consts == Vals \cup {str2v("s"), str2v("t")}

\* the literal token of a value
Lit(v) ==
    IF v.t = "num" THEN Num(v.v)
    ELSE IF v.t = "str" THEN Str(v.str)
    ELSE IF v.v = TAG_NIL THEN Tk("nil")
    ELSE IF v.v = TAG_FALSE THEN Tk("false") ELSE Tk("true")

Local(name) == <<Tk("local"), Id(name), Tk("=")>>

\* local a = va; local b = vb; local x = vx
Locals3(pr) ==
    Local("a") \o <<Lit(pr.va)>> \o Local("b") \o <<Lit(pr.vb)>>
               \o Local("x") \o <<Lit(pr.vx)>>

AndOrExpr(n) ==
    CASE n = 1 -> <<Id("a"), Tk("and"), Id("b")>>
      [] n = 2 -> <<Id("a"), Tk("or"), Id("b")>>
      [] n = 3 -> <<Id("a"), Tk("and"), Id("b"), Tk("or"), Id("x")>>
      [] n = 4 -> <<Id("a"), Tk("and"), Id("b"), Tk("and"), Id("x")>>
      [] n = 5 -> <<Id("a"), Tk("or"), Id("b"), Tk("or"), Id("x")>>
      [] n = 6 -> <<Id("a"), Tk("or"), Id("b"), Tk("and"), Id("x")>>
      [] n = 7 -> <<Tk("not"), Id("a"), Tk("or"), Id("b")>>
      [] OTHER -> <<Tk("not"), Id("a")>>

\* local function a(a, b) return a + 1, b + 2, a + 3 end
FnA ==
    <<Tk("local"), Tk("function"), Id("a"), Tk("("), Id("a"), Tk(","), Id("b"), Tk(")"),
      Tk("return"), Id("a"), Tk("+"), Num(1), Tk(","), Id("b"), Tk("+"), Num(2), Tk(","),
      Id("a"), Tk("+"), Num(3), Tk("end")>>

CallA == <<Id("a"), Tk("("), Num(1), Tk(","), Num(2), Tk(")")>>

\* the names declared by a local declaration of n variables
NameList(n) ==
    CASE n = 1 -> <<Id("x")>>
      [] n = 2 -> <<Id("x"), Tk(","), Id("y")>>
      [] n = 3 -> <<Id("x"), Tk(","), Id("y"), Tk(","), Id("z")>>
      [] OTHER -> <<Id("x"), Tk(","), Id("y"), Tk(","), Id("z"), Tk(","), Id("w")>>

CallAssign(n) ==
    CASE n = 1 -> <<Id("x"), Tk(","), Id("y"), Tk("=")>> \o CallA \o <<Tk(","), Num(100)>>
      [] n = 2 -> NameList(3) \o <<Tk("="), Num(50), Tk(",")>> \o CallA
      [] OTHER -> NameList(3) \o <<Tk("="), Num(50), Tk(",")>> \o CallA
                              \o <<Tk(","), Num(40)>>

Assign(n) ==
    CASE n = 1 -> <<Id("a"), Tk(","), Id("b"), Tk("="), Id("b"), Tk(","), Id("a")>>
      [] n = 2 -> <<Id("a"), Tk(","), Id("b"), Tk(","), Id("x"), Tk("="),
                    Id("b"), Tk(","), Id("x"), Tk(","), Id("a")>>
      [] OTHER -> <<Id("a"), Tk("="), Id("b")>>

Return(n) ==
    CASE n = 0 -> <<Tk("return")>>
      [] n = 1 -> <<Tk("return"), Id("a")>>
      [] OTHER -> <<Tk("return"), Id("a"), Tk(","), Id("b")>>

\* n = 0: local function f(a, b) return b end
\* n = 1: local function f(a) return a + 1 end
FnF(n) ==
    IF n = 0
    THEN <<Tk("local"), Tk("function"), Id("f"), Tk("("), Id("a"), Tk(","), Id("b"),
           Tk(")"), Tk("return"), Id("b"), Tk("end")>>
    ELSE <<Tk("local"), Tk("function"), Id("f"), Tk("("), Id("a"), Tk(")"),
           Tk("return"), Id("a"), Tk("+"), Num(1), Tk("end")>>

\* f(va, vb) for the first f, f(va) for the second
CallF(pr) ==
    IF pr.n = 0 THEN <<Id("f"), Tk("("), Lit(pr.va), Tk(","), Lit(pr.vb), Tk(")")>>
    ELSE <<Id("f"), Tk("("), Lit(pr.va), Tk(")")>>

\* an operator applied to literals: not va; va == vb; va ~= vb
Fold(pr) ==
    CASE pr.n = 1 -> <<Tk("not"), Lit(pr.va)>>
      [] pr.n = 2 -> <<Lit(pr.va), Tk("=="), Lit(pr.vb)>>
      [] OTHER -> <<Lit(pr.va), Tk("~="), Lit(pr.vb)>>

\* the ordered comparisons, numbered
RelTk(n) == CASE n % 4 = 1 -> "<" [] n % 4 = 2 -> "<=" [] n % 4 = 3 -> ">" [] OTHER -> ">="

\* n in 1..4: vb < a, vb <= a, vb > a, vb >= a (the constant on the left);
\* n in 5..8: a < vb, ... (the constant on the right)
Rel(pr) ==
    IF pr.n <= 4 THEN <<Lit(pr.vb), Tk(RelTk(pr.n)), Id("a")>>
    ELSE <<Id("a"), Tk(RelTk(pr.n)), Lit(pr.vb)>>

\* integer literals around the ends of the 16-bit operand
KintNums == {0, 5, 32767, 32768, 65535, 65536}

\* n = 1: the literal; n = 2: its negation
Kint(pr) == IF pr.n = 1 THEN <<Lit(pr.va)>> ELSE <<Tk("-"), Lit(pr.va)>>

XeqA == <<Id("x"), Tk("="), Id("a")>>
XeqB == <<Id("x"), Tk("="), Id("b")>>

\* one statement of each remaining kind, over the locals a, b, x
Control(n) ==
    CASE n = 1 -> Local("r") \o <<Tk("-"), Id("a")>>
      [] n = 2 -> <<Tk("local"), Id("p"), Tk(","), Id("q"), Tk(","), Id("r"), Tk("="), Id("a")>>
      [] n = 3 -> <<Tk("if"), Id("a"), Tk("then")>> \o XeqB \o <<Tk("end")>>
      [] n = 4 -> <<Tk("if"), Id("a"), Tk("or"), Id("b"), Tk("=="), Id("x"), Tk("then")>>
                  \o XeqA \o <<Tk("end")>>
      [] n = 5 -> <<Tk("if"), Id("a"), Tk("=="), Id("b"), Tk("then")>> \o XeqA
                  \o <<Tk("elseif"), Id("a"), Tk("~="), Num(MaxNum), Tk("then")>> \o XeqB
                  \o <<Tk("else"), Id("x"), Tk("="), Tk("nil"), Tk("end")>>
      [] n = 6 -> <<Tk("if"), Id("a"), Tk("<"), Id("b"), Tk("then"),
                    Id("x"), Tk("="), Id("a"), Tk("-"), Num(1), Tk("end")>>
      [] n = 7 -> <<Tk("while"), Id("a"), Tk("do"), Id("a"), Tk("="), Tk("false"), Tk(";")>>
                  \o XeqB \o <<Tk("end")>>
      [] n = 8 -> <<Tk("repeat"), Id("a"), Tk("="), Tk("true"), Tk("until"), Id("a")>>
      [] n = 9 -> <<Tk("if"), Tk("false"), Tk("and"), Id("a"), Tk("=="), Id("b"), Tk("then"),
                    Tk("end")>>
      [] n = 10 -> <<Tk("do")>> \o Local("t") \o <<Id("a"), Tk(";"), Id("x"), Tk("="), Id("t"),
                     Tk("end")>>
      [] OTHER -> <<Tk("while"), Id("a"), Tk("do"), Tk("break"), Tk("end")>>

NumControl == 11

\* chunks whose conditions merge jump lists of more than one jump
Jumps(n) ==
    CASE n = 1 -> <<Id("x"), Tk("="), Id("a"), Tk("and"), Id("b"), Tk("and"),
                    Tk("("), Id("x"), Tk("and"), Id("a"), Tk(")")>>
      [] n = 2 -> <<Id("x"), Tk("="), Id("a"), Tk("or"), Id("b"), Tk("or"),
                    Tk("("), Id("x"), Tk("or"), Id("a"), Tk(")")>>
      [] n = 3 -> <<Tk("if"), Id("a"), Tk("and"), Id("b"), Tk("and"),
                    Tk("("), Id("x"), Tk("and"), Id("a"), Tk(")"), Tk("then")>>
                  \o XeqB \o <<Tk("end")>>
      [] n = 4 -> <<Tk("while"), Id("a"), Tk("do"), Tk("if"), Id("b"), Tk("then"),
                    Tk("break"), Tk("end"), Tk("if"), Id("x"), Tk("then"),
                    Tk("break"), Tk("end"), Id("a"), Tk("="), Tk("false"), Tk("end")>>
      [] n = 5 -> <<Id("x"), Tk("="), Tk("false"), Tk("or"), Id("a")>>
      [] n = 6 -> <<Id("x"), Tk("="), Tk("nil"), Tk("and"), Id("a")>>
      [] n = 7 -> <<Tk("if"), Id("a"), Tk("=="), Id("b"), Tk("or"), Id("a"), Tk("<"),
                    Num(MaxNum), Tk("or"), Tk("("), Id("x"), Tk("or"), Id("b"), Tk(")"),
                    Tk("then")>> \o XeqA \o <<Tk("end")>>
      [] OTHER -> <<Tk("repeat"), Tk("if"), Id("a"), Tk("then"), Tk("break"), Tk("end"),
                    Id("a"), Tk("="), Tk("true"), Tk("until"), Id("a"), Tk("or"), Id("b")>>

NumJumps == 8

WhileA == <<Tk("while"), Id("a"), Tk("do")>>
AeqFalse == <<Id("a"), Tk("="), Tk("false")>>

\* break outside every loop (1..3) and inside one (4..NumBreaks)
Breaks(n) ==
    CASE n = 1 -> <<Tk("break")>>
      [] n = 2 -> <<Tk("if"), Id("a"), Tk("then"), Tk("break"), Tk("end")>>
      [] n = 3 -> WhileA \o <<Tk("local"), Tk("function"), Id("f"), Tk("("), Tk(")"),
                              Tk("break"), Tk("end")>> \o AeqFalse \o <<Tk("end")>>
      [] n = 4 -> WhileA \o <<Tk("break"), Tk("end")>>
      [] n = 5 -> <<Tk("repeat")>> \o XeqB \o <<Tk("break"), Tk("until"), Id("a")>>
      [] n = 6 -> WhileA \o <<Tk("while"), Id("b"), Tk("do"), Tk("break"), Tk("end")>>
                         \o XeqB \o AeqFalse \o <<Tk("end")>>
      [] n = 7 -> WhileA \o <<Tk("while"), Id("b"), Tk("do"), Id("b"), Tk("="),
                              Tk("false"), Tk("end"), Tk("break"), Tk("end")>>
      [] n = 8 -> WhileA \o <<Tk("break"), Tk(";")>> \o XeqB \o <<Tk("end")>>
      [] n = 9 -> WhileA \o <<Tk("do"), Tk("break"), Tk("end")>> \o AeqFalse
                         \o <<Tk("end")>>
      [] OTHER -> <<Tk("repeat"), Tk("if"), Id("b"), Tk("then"), Tk("break"), Tk("end")>>
                  \o XeqB \o <<Tk("while"), Id("x"), Tk("do"), Tk("break"), Tk("end"),
                                Tk("until"), Id("a")>>

NumBreaks == 10

\* the keyword local followed by no name: at the end of the chunk, by '=',
\* by a number, by a parenthesis
NoName(n) ==
    CASE n = 1 -> <<Tk("local")>>
      [] n = 2 -> <<Tk("local"), Tk("="), Num(MaxNum)>>
      [] n = 3 -> <<Tk("local"), Num(MaxNum)>>
      [] OTHER -> <<Tk("local"), Tk("("), Id("a"), Tk(")")>>

NumNoName == 4

\* local v = nil, n times over
LocalsN(n) ==
    [i \in 1..(4 * n) |-> (Local("v") \o <<Tk("nil")>>)[((i - 1) % 4) + 1]]

\* the longest run of local declarations
NumLocals == 256

\* loops whose JMPs stand at PC 0 or next to each other
Lists(pr) ==
    CASE pr.n = 1 -> <<Tk("while"), Tk("true"), Tk("do"), Tk("break"), Tk("end")>>
      [] pr.n = 2 -> <<Tk("repeat"), Tk("break"), Tk("until"), Tk("true")>>
      [] pr.n = 3 -> Local("a") \o <<Lit(pr.va)>> \o WhileA
                        \o <<Tk("break"), Tk("break"), Tk("end")>>
      [] pr.n = 4 -> Local("a") \o <<Lit(pr.va)>> \o WhileA
                        \o <<Tk("break"), Tk("break")>> \o AeqFalse \o <<Tk("end")>>
      [] OTHER -> Local("a") \o <<Lit(pr.va)>> \o WhileA \o <<Tk("break"), Tk("end")>>

NumLists == 5

\* an or whose left operand is the constant false or nil
ConstOr(n) ==
    CASE n = 1 -> <<Id("x"), Tk("="), Tk("false"), Tk("or"), Id("a")>>
      [] n = 2 -> <<Id("x"), Tk("="), Tk("nil"), Tk("or"), Id("a")>>
      [] n = 3 -> Local("r") \o <<Tk("false"), Tk("or"), Id("b")>>
      [] OTHER -> Local("r") \o <<Tk("nil"), Tk("or"), Id("b")>>

NumConstOr == 4

\* assignments with fewer expressions than variables
Fewer(n) ==
    CASE n = 1 -> <<Id("a"), Tk(","), Id("b"), Tk("="), Id("b")>>
      [] n = 2 -> <<Id("a"), Tk(","), Id("b"), Tk(","), Id("x"), Tk("="), Id("b")>>
      [] OTHER -> <<Id("a"), Tk(","), Id("b"), Tk(","), Id("x"), Tk("="),
                    Id("b"), Tk(","), Id("a")>>

NumFewer == 3

\* local function f(a, b) local c = 0 return a end
\* local x = va
\* local v = x and f(vb, nil)      (n = 1; n = 2: x or f(vb, nil))
\* f returns its first argument; its first instruction has the A operand of
\* the CALL, which has its base in slot 2.
ShortCall(pr) ==
    <<Tk("local"), Tk("function"), Id("f"), Tk("("), Id("a"), Tk(","), Id("b"), Tk(")"),
      Tk("local"), Id("c"), Tk("="), Num(0), Tk("return"), Id("a"), Tk("end")>>
    \o Local("x") \o <<Lit(pr.va)>>
    \o Local("v") \o <<Id("x"), Tk(IF pr.n = 1 THEN "and" ELSE "or"), Id("f"), Tk("("),
                         Lit(pr.vb), Tk(","), Tk("nil"), Tk(")")>>

\* local r = not (a and b)   (n = 1; n = 2: not (a or b))
NotShort(n) ==
    Local("r") \o <<Tk("not"), Tk("("), Id("a"), Tk(IF n = 1 THEN "and" ELSE "or"),
                     Id("b"), Tk(")")>>

\* local function g(a, b) local c = 0 return a end
\* local function f(h, i) local r = h(i, nil) return r end
\* local x = f(g, va)
\* a call inside a call; the first instruction of either function has the A
\* operand of the CALL that enters it (2)
Nested(pr) ==
    <<Tk("local"), Tk("function"), Id("g"), Tk("("), Id("a"), Tk(","), Id("b"), Tk(")"),
      Tk("local"), Id("c"), Tk("="), Num(0), Tk("return"), Id("a"), Tk("end"),
      Tk("local"), Tk("function"), Id("f"), Tk("("), Id("h"), Tk(","), Id("i"), Tk(")"),
      Tk("local"), Id("r"), Tk("="), Id("h"), Tk("("), Id("i"), Tk(","), Tk("nil"), Tk(")"),
      Tk("return"), Id("r"), Tk("end")>>
    \o Local("x") \o <<Id("f"), Tk("("), Id("g"), Tk(","), Lit(pr.va), Tk(")")>>

\* the parameters of the function that calls itself through its argument
DeepParams == 63

\* local function f(h, p, ..., p) h(h) end      DeepParams parameters
\* local v = nil  (DeepParams - 1 times)
\* f(f)
\* Both CALLs have their base in slot DeepParams, and so has the first
\* instruction of f: every call moves the frame base up by DeepParams + 1.
Deep ==
    <<Tk("local"), Tk("function"), Id("f"), Tk("("), Id("h")>>
    \o [i \in 1..(2 * (DeepParams - 1)) |-> IF i % 2 = 1 THEN Tk(",") ELSE Id("p")]
    \o <<Tk(")"), Id("h"), Tk("("), Id("h"), Tk(")"), Tk("end")>>
    \o LocalsN(DeepParams - 1)
    \o <<Id("f"), Tk("("), Id("f"), Tk(")")>>

\* the counting loop runs up to this number
NumCount == 10

\* local i = 0 ; while i < n do i = i + 1 end
Count(n) ==
    Local("i") \o <<Num(0), Tk(";"), Tk("while"), Id("i"), Tk("<"), Num(n), Tk("do"),
                     Id("i"), Tk("="), Id("i"), Tk("+"), Num(1), Tk("end")>>

\* the function of the chunks below that call: it returns its first argument
FnFirst ==
    <<Tk("local"), Tk("function"), Id("f"), Tk("("), Id("a"), Tk(","), Id("b"), Tk(")"),
      Tk("local"), Id("c"), Tk("="), Num(0), Tk("return"), Id("a"), Tk("end")>>

\* f(arg, nil)
CallFirst(arg) == <<Id("f"), Tk("(")>> \o arg \o <<Tk(","), Tk("nil"), Tk(")")>>

\* (l op r)
Paren(l, op, r) == <<Tk("("), Id(l), Tk(op), Id(r), Tk(")")>>

NumTemps == 11

\* expressions that hold two temporaries at once
\*  1  x = (a + b) * (a - b)            2  x = (a + b) - (a - b) - a
\*  3  x = (a + b) == (a - b)           4  x = (a + b) < (a * b)
\*  5  x = -(a + b) - (a * b)           6  x = a - (b - (a - b))
\*  7  x = (a + b) and (a - b) - (b + a)
\*  8  if (a + b) * a == (a - b) * b then x = a end
\* after local function f(a, b) local c = 0 return a end; local x = va:
\*  9  local v = f(x, nil) - (x + x)   10  local v = (x + x) - f(x, nil)
\* 11  local v = f(f(x, nil) - x, nil)
Temps(pr) ==
    CASE pr.n = 1 -> Locals3(pr) \o <<Id("x"), Tk("=")>> \o Paren("a", "+", "b") \o <<Tk("*")>>
                        \o Paren("a", "-", "b")
      [] pr.n = 2 -> Locals3(pr) \o <<Id("x"), Tk("=")>> \o Paren("a", "+", "b") \o <<Tk("-")>>
                        \o Paren("a", "-", "b") \o <<Tk("-"), Id("a")>>
      [] pr.n = 3 -> Locals3(pr) \o <<Id("x"), Tk("=")>> \o Paren("a", "+", "b") \o <<Tk("==")>>
                        \o Paren("a", "-", "b")
      [] pr.n = 4 -> Locals3(pr) \o <<Id("x"), Tk("=")>> \o Paren("a", "+", "b") \o <<Tk("<")>>
                        \o Paren("a", "*", "b")
      [] pr.n = 5 -> Locals3(pr) \o <<Id("x"), Tk("="), Tk("-")>> \o Paren("a", "+", "b")
                        \o <<Tk("-")>> \o Paren("a", "*", "b")
      [] pr.n = 6 -> Locals3(pr) \o <<Id("x"), Tk("="), Id("a"), Tk("-"), Tk("("), Id("b"),
                                      Tk("-")>> \o Paren("a", "-", "b") \o <<Tk(")")>>
      [] pr.n = 7 -> Locals3(pr) \o <<Id("x"), Tk("=")>> \o Paren("a", "+", "b") \o <<Tk("and")>>
                        \o Paren("a", "-", "b") \o <<Tk("-")>> \o Paren("b", "+", "a")
      [] pr.n = 8 -> Locals3(pr) \o <<Tk("if")>> \o Paren("a", "+", "b") \o <<Tk("*"), Id("a"),
                        Tk("==")>> \o Paren("a", "-", "b") \o <<Tk("*"), Id("b"), Tk("then"),
                        Id("x"), Tk("="), Id("a"), Tk("end")>>
      [] pr.n = 9 -> FnFirst \o Local("x") \o <<Lit(pr.va)>> \o Local("v")
                        \o CallFirst(<<Id("x")>>) \o <<Tk("-")>> \o Paren("x", "+", "x")
      [] pr.n = 10 -> FnFirst \o Local("x") \o <<Lit(pr.va)>> \o Local("v")
                        \o Paren("x", "+", "x") \o <<Tk("-")>> \o CallFirst(<<Id("x")>>)
      [] OTHER -> FnFirst \o Local("x") \o <<Lit(pr.va)>> \o Local("v")
                        \o CallFirst(CallFirst(<<Id("x")>>) \o <<Tk("-"), Id("x")>>)

\* local function f(a) if a then f(nil) end end
\* local x = f(va)
Recurse(pr) ==
    <<Tk("local"), Tk("function"), Id("f"), Tk("("), Id("a"), Tk(")"),
      Tk("if"), Id("a"), Tk("then"), Id("f"), Tk("("), Tk("nil"), Tk(")"), Tk("end"),
      Tk("end")>>
    \o Local("x") \o <<Id("f"), Tk("("), Lit(pr.va), Tk(")")>>

NumUnknown == 3

\* after local a = va, a name y that no local has:
\*  1  local r = y        2  y = a        3  if y then a = nil end
Unknown(pr) ==
    Local("a") \o <<Lit(pr.va)>>
    \o (CASE pr.n = 1 -> Local("r") \o <<Id("y")>>
           [] pr.n = 2 -> <<Id("y"), Tk("="), Id("a")>>
           [] OTHER -> <<Tk("if"), Id("y"), Tk("then"), Id("a"), Tk("="), Tk("nil"),
                         Tk("end")>>)

\* the token stream of a chunk (what the lexer hands to the parser)
Chunk(pr) ==
    (CASE pr.kind = "count" -> Count(pr.n)
       [] pr.kind = "recurse" -> Recurse(pr)
       [] pr.kind = "unknown" -> Unknown(pr)
       [] pr.kind = "temps" -> Temps(pr)
       [] pr.kind = "lists" -> Lists(pr)
       [] pr.kind = "deep" -> Deep
       [] pr.kind = "nested" -> Nested(pr)
       [] pr.kind = "notshort" -> Locals3(pr) \o NotShort(pr.n)
       [] pr.kind = "shortcall" -> ShortCall(pr)
       [] pr.kind = "fewer" -> Locals3(pr) \o Fewer(pr.n)
       [] pr.kind = "constor" -> Locals3(pr) \o ConstOr(pr.n)
       [] pr.kind = "andor" -> Locals3(pr) \o Local("r") \o AndOrExpr(pr.n)
       [] pr.kind = "assign" -> Locals3(pr) \o Assign(pr.n)
       [] pr.kind = "return" -> Locals3(pr) \o Return(pr.n)
       [] pr.kind = "control" -> Locals3(pr) \o Control(pr.n)
       [] pr.kind = "jumps" -> Locals3(pr) \o Jumps(pr.n)
       [] pr.kind = "breaks" -> Locals3(pr) \o Breaks(pr.n)
       [] pr.kind = "noname" -> Locals3(pr) \o NoName(pr.n)
       [] pr.kind = "locals" -> LocalsN(pr.n)
       [] pr.kind = "calldecl" -> FnA \o <<Tk("local")>> \o NameList(pr.n) \o <<Tk("=")>> \o CallA
       [] pr.kind = "callassign" ->
            FnA \o Local("x") \o <<Num(0)>> \o Local("y") \o <<Num(0)>>
                \o Local("z") \o <<Num(0)>> \o CallAssign(pr.n)
       [] pr.kind = "ret1" -> FnF(pr.n) \o Local("x") \o CallF(pr)
       [] pr.kind = "fold" -> Local("r") \o Fold(pr)
       [] pr.kind = "kint" -> Local("r") \o Kint(pr)
       [] pr.kind = "rel" -> Local("a") \o <<Lit(pr.va)>> \o Local("r") \o Rel(pr)
       [] OTHER -> Local("a") \o <<Lit(pr.va), Id("a"), Tk("("), Tk(")")>>)
    \o <<TK_EOF>>

Prog(kind, va, vb, vx, n) == [kind |-> kind, va |-> va, vb |-> vb, vx |-> vx, n |-> n]

Programs ==
    {Prog("andor", va, vb, vx, n) : va \in Vals, vb \in Vals,
                                    vx \in {VAL_NIL, n2v(MaxNum)}, n \in 1..8}
    \cup {Prog("assign", va, vb, n2v(MaxNum), n) : va \in Vals, vb \in Vals, n \in 1..3}
    \cup {Prog("control", va, vb, vx, n) : va \in Vals, vb \in Vals,
                                      vx \in {VAL_NIL, n2v(MaxNum)}, n \in 1..NumControl}
    \cup {Prog("jumps", va, vb, vx, n) : va \in Vals, vb \in Vals,
                                    vx \in {VAL_NIL, n2v(MaxNum)}, n \in 1..NumJumps}
    \cup {Prog("breaks", va, vb, vx, n) : va \in Vals, vb \in Vals,
                                     vx \in {VAL_NIL, n2v(MaxNum)}, n \in 1..NumBreaks}
    \cup {Prog("noname", va, vb, VAL_NIL, n) : va \in Vals, vb \in Vals, n \in 1..NumNoName}
    \cup {Prog("count", VAL_NIL, VAL_NIL, VAL_NIL, n) : n \in (NumCount - 2)..NumCount}
    \cup {Prog("lists", va, VAL_NIL, VAL_NIL, n) : va \in Vals, n \in 1..NumLists}
    \cup {Prog("constor", va, vb, VAL_NIL, n) : va \in Vals, vb \in Vals, n \in 1..NumConstOr}
    \cup {Prog("fewer", va, vb, vx, n) : va \in Vals, vb \in Vals,
                                    vx \in {VAL_NIL, n2v(MaxNum)}, n \in 1..NumFewer}
    \cup {Prog("shortcall", va, vb, VAL_NIL, n) : va \in Vals, vb \in Vals, n \in 1..2}
    \cup {Prog("notshort", va, vb, VAL_NIL, n) : va \in Vals, vb \in Vals, n \in 1..2}
    \cup {Prog("nested", va, VAL_NIL, VAL_NIL, 0) : va \in Vals}
    \cup {Prog("deep", VAL_NIL, VAL_NIL, VAL_NIL, 0)}
    \cup {Prog("recurse", va, VAL_NIL, VAL_NIL, 0) : va \in Vals}
    \cup {Prog("unknown", va, VAL_NIL, VAL_NIL, n) : va \in Vals, n \in 1..NumUnknown}
    \cup {Prog("temps", n2v(MaxNum), n2v(MaxNum - 1), VAL_NIL, n) : n \in 1..NumTemps}
    \cup {Prog("locals", VAL_NIL, VAL_NIL, VAL_NIL, n) : n \in (NumLocals - 2)..NumLocals}
    \cup {Prog("return", va, VAL_TRUE, VAL_NIL, n) : va \in Vals, n \in 0..2}
    \cup {Prog("calldecl", VAL_NIL, VAL_NIL, VAL_NIL, n) : n \in {1, 2, 4}}
    \cup {Prog("callassign", VAL_NIL, VAL_NIL, VAL_NIL, n) : n \in 1..3}
    \cup {Prog("ret1", va, vb, VAL_NIL, 0) : va \in Vals, vb \in Vals}
    \cup {Prog("ret1", va, VAL_NIL, VAL_NIL, 1) : va \in Vals}
    \cup {Prog("callvalue", va, VAL_NIL, VAL_NIL, 0) : va \in Vals}
    \cup {Prog("rel", n2v(a), n2v(b), VAL_NIL, n) :
                a \in (MaxNum - 1)..MaxNum, b \in (MaxNum - 1)..MaxNum, n \in 1..8}
    \cup {Prog("kint", n2v(k), VAL_NIL, VAL_NIL, n) : k \in KintNums, n \in 1..2}
    \cup {Prog("fold", va, VAL_NIL, VAL_NIL, 1) : va \in Consts}
    \cup {Prog("fold", va, vb, VAL_NIL, n) : va \in Consts, vb \in Consts, n \in 2..3}

\* ------------------------------------------------------------- lua_load

\* lua_newstate, lexer_new, parser_new.  The steps of the compiler and of the
\* interpreter are followed without their protected-call frame, which is the
\* subject of SpecPcall below: they leave L, pcalls and event alone, and patch, which
\* belongs to SpecPatch.
\* lua_newstate sets the value stack
\* only: no code of the repository allocates L->call_stack or sets
\* L->num_calls and L->max_calls.  The model starts from the state execute
\* needs to run at all, an allocated call stack with no frame on it.
\* fn_new, the constant pool: no constant, room announced for 16, and
\* sizeof(uint64_t) * 16 bytes allocated.  idx, width and operand describe the
\* last emit_k: the index it returned, the width of the operand the caller
\* casts it to, and the operand the instruction gets.
fn_new_k ==
    [num_k |-> 0, max_k |-> 16, bytes |-> 8 * 16, idx |-> 0, width |-> 0,
     operand |-> 0, err |-> "", halt |-> ""]

Init ==
    /\ prog \in Programs
    /\ P = [toks |-> Chunk(prog), f |-> <<>>, fns |-> <<>>,
            status |-> "", err |-> "", failed |-> {}, seen |-> {}, oob |-> "trap"]
    /\ phase = "init"
    /\ stack = [j \in {} |-> garbage]
    /\ call_stack = <<>>
    /\ num_calls = 0
    /\ max_calls = InitMaxCalls
    /\ fn = 0
    /\ ip = 0
    /\ s = 0
    /\ garbage \in {VAL_NIL, n2v(MaxNum + 5)}
    /\ L = [stack |-> <<>>, top |-> 0, err |-> 0, halt |-> ""]
    /\ pcalls = <<>>
    /\ event = [ev |-> "none", depth |-> 0, status |-> 0]
    /\ patch = [jmp |-> 0, target |-> 0, ins |-> ins0(BC("JMP")), err |-> "", done |-> FALSE]
    /\ pool = fn_new_k

\* the phase after a step of the compiler
ParsePhase(ps) == IF ps.status = "" THEN "parse" ELSE ps.status

Write(st, i, v) == [j \in (DOMAIN st) \cup {i} |-> IF j = i THEN v ELSE st[j]]

\* parse: the lexer and the top-level function scope are set up
ParseStart ==
    /\ phase = "init"
    /\ P' = ParseBegin(P)
    /\ phase' = "parse"
    /\ UNCHANGED <<L, pcalls, event, patch, pool, prog, stack, call_stack, num_calls, max_calls, fn, ip, s, garbage>>

\* parse_block's loop at the top level: one statement
ParseStmt ==
    /\ phase = "parse"
    /\ ~is_end_of_block(peek_tk(P).t)
    /\ \E oob \in {"trap", "pass"} :
          P' = [StmtAndSemi([P EXCEPT !.oob = oob]) EXCEPT !.oob = "trap"]
    /\ phase' = ParsePhase(P')
    /\ UNCHANGED <<L, pcalls, event, patch, pool, prog, stack, call_stack, num_calls, max_calls, fn, ip, s, garbage>>

\* parse's end: the prototype is closed and pushed on the stack
ParseEnd ==
    /\ phase = "parse"
    /\ is_end_of_block(peek_tk(P).t)
    /\ P' = assert(ParseFinish(P), Len(ParseFinish(P).f) = 0, "parse")
    /\ stack' = Write(stack, 0, fn2v(1))
    /\ phase' = "loaded"
    /\ UNCHANGED <<L, pcalls, event, patch, pool, prog, call_stack, num_calls, max_calls, fn, ip, s, garbage>>


\* ------------------------------------------------------------- execute

\* L->stack_size
STACK_SIZE == 4096

\* execute's prologue: pops the prototype, s = L->stack, ip = &fn->ins[0]
Execute ==
    /\ phase = "loaded"
    /\ fn' = stack[0].v
    /\ ip' = 0
    /\ s' = 0
    /\ phase' = "run"
    /\ UNCHANGED <<L, pcalls, event, patch, pool, prog, P, stack, call_stack, num_calls, max_calls, garbage>>

\* *ip
Cur == P.fns[fn].ins[ip + 1]
\* the dispatch target
Op == OpName(bc_op(Cur))
\* k[i]
K(i) == IF i < Len(P.fns[fn].k) THEN P.fns[fn].k[i + 1] ELSE garbage
\* s[i]: a slot that was never written holds whatever the allocation held
R(i) == IF (s + i) \in DOMAIN stack THEN stack[s + i] ELSE garbage
InStack(i) == s + i >= 0 /\ s + i < STACK_SIZE

\* NEXT() / DISPATCH(): continue at pc of the current function, or at nothing
\* the program emitted if pc is outside it
Goto(pc) ==
    IF pc >= 0 /\ pc < Len(P.fns[fn].ins)
    THEN ip' = pc /\ phase' = "run"
    ELSE ip' = ip /\ phase' = "undefined"

\* s[i] = v; NEXT()
Store(i, v) ==
    IF InStack(i)
    THEN stack' = Write(stack, s + i, v) /\ Goto(ip + 1)
    ELSE stack' = stack /\ ip' = ip /\ phase' = "undefined"

\* type_name (numbers are never NaN here)
type_name(v) ==
    CASE v.t = "num" -> "number"
      [] v.t = "prim" /\ v.v = TAG_NIL -> "nil"
      [] v.t = "prim" -> "boolean"
      [] v.t = "str" -> "string"
      [] OTHER -> "function"

\* the messages of ERR_UNOP and ERR_BINOP
ERR_UNOP(msg, l) == "attempt to " \o msg \o " " \o type_name(l) \o " value"
ERR_BINOP(msg, l, r) ==
    IF type_name(l) = type_name(r)
    THEN "attempt to " \o msg \o " two " \o type_name(l) \o " values"
    ELSE "attempt to " \o msg \o " " \o type_name(l) \o " and " \o type_name(r) \o " value"

\* ERR(...): err_run has err_msg push the message at L->top, which is the
\* bottom of the stack while execute runs (execute popped the prototype that
\* lua_load had pushed), and unwinds to the protected call
Err(msg) == ip' = ip /\ phase' = "run_err" /\ stack' = Write(stack, 0, str2v(msg))

Frame == <<call_stack, num_calls, max_calls, fn, s>>

OP_NOP ==
    /\ phase = "run" /\ Op = "NOP"
    /\ Goto(ip + 1)
    /\ UNCHANGED <<L, pcalls, event, patch, pool, prog, P, stack, garbage, Frame>>

OP_MOV ==
    /\ phase = "run" /\ Op = "MOV"
    /\ Store(bc_a(Cur), R(bc_d(Cur)))
    /\ UNCHANGED <<L, pcalls, event, patch, pool, prog, P, garbage, Frame>>

OP_KPRIM ==
    /\ phase = "run" /\ Op = "KPRIM"
    /\ Store(bc_a(Cur), prim2v(bc_d(Cur)))
    /\ UNCHANGED <<L, pcalls, event, patch, pool, prog, P, garbage, Frame>>

OP_KINT ==
    /\ phase = "run" /\ Op = "KINT"
    /\ Store(bc_a(Cur), n2v(bc_d(Cur)))
    /\ UNCHANGED <<L, pcalls, event, patch, pool, prog, P, garbage, Frame>>

\* OP_KNUM, OP_KSTR and OP_KFN are one handler
OP_KNUM ==
    /\ phase = "run" /\ Op \in {"KNUM", "KSTR", "KFN"}
    /\ Store(bc_a(Cur), K(bc_d(Cur)))
    /\ UNCHANGED <<L, pcalls, event, patch, pool, prog, P, garbage, Frame>>

OP_KNIL ==
    /\ phase = "run" /\ Op = "KNIL"
    /\ LET ns == {s + n : n \in bc_a(Cur)..bc_d(Cur)}
       IN  /\ stack' = [j \in (DOMAIN stack) \cup ns |-> IF j \in ns THEN VAL_NIL ELSE stack[j]]
           /\ Goto(ip + 1)
    /\ UNCHANGED <<L, pcalls, event, patch, pool, prog, P, garbage, Frame>>

OP_NEG ==
    /\ phase = "run" /\ Op = "NEG"
    /\ IF ~is_num(R(bc_d(Cur))) THEN Err(ERR_UNOP("negate", R(bc_d(Cur))))
       ELSE Store(bc_a(Cur), n2v(0 - R(bc_d(Cur)).v))
    /\ UNCHANGED <<L, pcalls, event, patch, pool, prog, P, garbage, Frame>>

\* OP_ADDVV .. OP_MULVN: the operands are slots (V) or constants (N)
ArithOps == {"ADDVV", "ADDVN", "SUBVV", "SUBVN", "SUBNV", "MULVV", "MULVN"}
ArithTk(op) ==
    CASE op \in {"ADDVV", "ADDVN"} -> "+"
      [] op \in {"SUBVV", "SUBVN", "SUBNV"} -> "-"
      [] OTHER -> "*"
\* the verb the handler passes to CHECK_VV, CHECK_VN or CHECK_NV
ArithVerb(op) ==
    CASE op \in {"ADDVV", "ADDVN"} -> "add"
      [] op \in {"SUBVV", "SUBVN", "SUBNV"} -> "subtract"
      [] OTHER -> "multiply"

OP_ARITH ==
    /\ phase = "run" /\ Op \in ArithOps
    /\ LET l == IF Op = "SUBNV" THEN K(bc_b(Cur)) ELSE R(bc_b(Cur))
           r == IF Op \in {"ADDVN", "SUBVN", "MULVN"} THEN K(bc_c(Cur)) ELSE R(bc_c(Cur))
           chk == CASE Op \in {"ADDVN", "SUBVN", "MULVN"} -> is_num(l)
                    [] Op = "SUBNV" -> is_num(r)
                    [] OTHER -> is_num(l) /\ is_num(r)
       IN  IF ~chk THEN Err(ERR_BINOP(ArithVerb(Op), l, r))
           ELSE IF ~(is_num(l) /\ is_num(r))
           THEN stack' = stack /\ ip' = ip /\ phase' = "undefined"
           ELSE Store(bc_a(Cur), n2v(ArithValue(ArithTk(Op), l.v, r.v)))
    /\ UNCHANGED <<L, pcalls, event, patch, pool, prog, P, garbage, Frame>>

OP_NOT ==
    /\ phase = "run" /\ Op = "NOT"
    /\ Store(bc_a(Cur), IF compares_true(R(bc_d(Cur))) THEN VAL_TRUE ELSE VAL_FALSE)
    /\ UNCHANGED <<L, pcalls, event, patch, pool, prog, P, garbage, Frame>>

\* if (skip) { ip++; } NEXT();
Skip(skip) == Goto(IF skip THEN ip + 2 ELSE ip + 1)

OP_IST ==
    /\ phase = "run" /\ Op = "IST"
    /\ Skip(~compares_true(R(bc_d(Cur))))
    /\ UNCHANGED <<L, pcalls, event, patch, pool, prog, P, stack, garbage, Frame>>

OP_ISTC ==
    /\ phase = "run" /\ Op = "ISTC"
    /\ IF ~compares_true(R(bc_d(Cur))) THEN stack' = stack /\ Goto(ip + 2)
       ELSE Store(bc_a(Cur), R(bc_d(Cur)))
    /\ UNCHANGED <<L, pcalls, event, patch, pool, prog, P, garbage, Frame>>

OP_ISF ==
    /\ phase = "run" /\ Op = "ISF"
    /\ Skip(compares_true(R(bc_d(Cur))))
    /\ UNCHANGED <<L, pcalls, event, patch, pool, prog, P, stack, garbage, Frame>>

OP_ISFC ==
    /\ phase = "run" /\ Op = "ISFC"
    /\ IF compares_true(R(bc_d(Cur))) THEN stack' = stack /\ Goto(ip + 2)
       ELSE Store(bc_a(Cur), R(bc_d(Cur)))
    /\ UNCHANGED <<L, pcalls, event, patch, pool, prog, P, garbage, Frame>>


\* OP_EQVV .. OP_NEQVN: the right operand is a slot, a primitive or a constant
EqOps == {"EQVV", "EQVP", "EQVN", "NEQVV", "NEQVP", "NEQVN"}

OP_EQ ==
    /\ phase = "run" /\ Op \in EqOps
    /\ LET l == R(bc_a(Cur))
           r == CASE Op \in {"EQVV", "NEQVV"} -> R(bc_d(Cur))
                  [] Op \in {"EQVP", "NEQVP"} -> prim2v(bc_d(Cur))
                  [] OTHER -> K(bc_d(Cur))
       IN  Skip(IF Op \in {"EQVV", "EQVP", "EQVN"} THEN l # r ELSE l = r)
    /\ UNCHANGED <<L, pcalls, event, patch, pool, prog, P, stack, garbage, Frame>>

\* OP_LTVV .. OP_GEVN
RelOps == {"LTVV", "LTVN", "LEVV", "LEVN", "GTVV", "GTVN", "GEVV", "GEVN"}

OP_REL ==
    /\ phase = "run" /\ Op \in RelOps
    /\ LET l == R(bc_a(Cur))
           vn == Op \in {"LTVN", "LEVN", "GTVN", "GEVN"}
           r == IF vn THEN K(bc_d(Cur)) ELSE R(bc_d(Cur))
           chk == IF vn THEN is_num(l) ELSE is_num(l) /\ is_num(r)
           skip == CASE Op \in {"LTVV", "LTVN"} -> l.v >= r.v
                     [] Op \in {"LEVV", "LEVN"} -> l.v > r.v
                     [] Op \in {"GTVV", "GTVN"} -> l.v <= r.v
                     [] OTHER -> l.v < r.v
           verb == CASE Op \in {"LTVV", "LTVN"} -> "compare less than"
                     [] Op \in {"LEVV", "LEVN"} -> "compare less than or equal"
                     [] Op \in {"GTVV", "GTVN"} -> "compare greater than"
                     [] OTHER -> "compare greater than or equal"
       IN  IF ~chk THEN Err(ERR_BINOP(verb, l, r))
           ELSE stack' = stack /\ Skip(skip)
    /\ UNCHANGED <<L, pcalls, event, patch, pool, prog, P, garbage, Frame>>

OP_JMP ==
    /\ phase = "run" /\ Op = "JMP"
    /\ Goto(ip + bc_e(Cur) - JMP_BIAS)
    /\ UNCHANGED <<L, pcalls, event, patch, pool, prog, P, stack, garbage, Frame>>

CallInfo(f, i, base, num_rets) == [fn |-> f, ip |-> i, s |-> base, num_rets |-> num_rets]

\* The frame is written through a pointer taken before the call stack is
\* reallocated: when the reallocation moves the block (moved) the write goes
\* to freed memory.  The callee is taken from slot A unchecked, and the new
\* base is computed from the A operand of the instruction ip points at after
\* ip was set to the callee's first instruction.
OP_CALL ==
    /\ phase = "run" /\ Op = "CALL"
    /\ num_calls < MaxCalls
    /\ \E moved \in IF num_calls + 1 >= max_calls THEN BOOLEAN ELSE {FALSE} :
        LET callee == R(bc_a(Cur))
            first == P.fns[callee.v].ins[1]
        IN  /\ num_calls' = num_calls + 1
            /\ max_calls' = IF num_calls + 1 >= max_calls THEN max_calls * 2 ELSE max_calls
            /\ call_stack' = Append(call_stack, CallInfo(fn, ip, s, bc_c(Cur)))
            /\ IF moved \/ ~is_fn(callee)
               THEN phase' = "undefined" /\ UNCHANGED <<fn, ip, s>>
               ELSE /\ fn' = callee.v
                    /\ ip' = 0
                    /\ s' = s + bc_a(first) + 1
                    /\ phase' = "run"
    /\ UNCHANGED <<L, pcalls, event, patch, pool, prog, P, stack, garbage>>

\* the frame popped by a return: cs[--L->num_calls]
TopCall == call_stack[num_calls]

\* fn = c->fn; ip = c->ip; s = c->s; k = fn->k; NEXT();
Resume(c) ==
    /\ fn' = c.fn
    /\ s' = c.s
    /\ ip' = c.ip + 1
    /\ phase' = IF c.ip + 1 < Len(P.fns[c.fn].ins) THEN "run" ELSE "undefined"
    /\ num_calls' = num_calls - 1
    /\ call_stack' = SubSeq(call_stack, 1, num_calls - 1)

\* goto end
End == phase' = "done" /\ UNCHANGED <<stack, call_stack, num_calls, fn, ip, s>>

\* the callee's slots idx(i), i in 0..n-1, written with val(i)
WriteAll(writes) ==
    [j \in (DOMAIN stack) \cup (DOMAIN writes) |->
        IF j \in DOMAIN writes THEN writes[j] ELSE stack[j]]

OP_RET0 ==
    /\ phase = "run" /\ Op = "RET0"
    /\ IF num_calls = 0 THEN End
       ELSE /\ stack' = WriteAll([j \in {s + i : i \in (-1)..(TopCall.num_rets - 2)}
                                    |-> VAL_NIL])
            /\ Resume(TopCall)
    /\ UNCHANGED <<L, pcalls, event, patch, pool, prog, P, max_calls, garbage>>

OP_RET1 ==
    /\ phase = "run" /\ Op = "RET1"
    /\ IF num_calls = 0 THEN End
       ELSE /\ stack' = WriteAll([j \in {s + i : i \in (-1)..(TopCall.num_rets - 2)}
                                    |-> IF j = s - 1 THEN R(bc_d(Cur)) ELSE VAL_NIL])
            /\ Resume(TopCall)
    /\ UNCHANGED <<L, pcalls, event, patch, pool, prog, P, max_calls, garbage>>

OP_RET ==
    /\ phase = "run" /\ Op = "RET"
    /\ IF num_calls = 0 THEN End
       ELSE LET n == IF bc_d(Cur) > TopCall.num_rets THEN bc_d(Cur) ELSE TopCall.num_rets
            IN  /\ stack' = WriteAll([j \in {s - 1 + i : i \in 0..(n - 1)} |->
                                IF j - (s - 1) < bc_d(Cur)
                                THEN R(bc_a(Cur) + (j - (s - 1))) ELSE VAL_NIL])
                /\ Resume(TopCall)
    /\ UNCHANGED <<L, pcalls, event, patch, pool, prog, P, max_calls, garbage>>

Next ==
    \/ ParseStart \/ ParseStmt \/ ParseEnd \/ Execute
    \/ OP_NOP \/ OP_MOV \/ OP_KPRIM \/ OP_KINT \/ OP_KNUM \/ OP_KNIL
    \/ OP_NEG \/ OP_ARITH \/ OP_NOT
    \/ OP_IST \/ OP_ISTC \/ OP_ISF \/ OP_ISFC \/ OP_EQ \/ OP_REL
    \/ OP_JMP \/ OP_CALL \/ OP_RET0 \/ OP_RET1 \/ OP_RET

Spec == Init /\ [][Next]_vars

\* The counting loops alone, with the steps their code takes.  execute
\* dispatches the next instruction as soon as the last one is done (NEXT): once
\* the prototype is loaded, a step of the interpreter that can be taken is
\* taken.
InitCount == Init /\ prog.kind = "count"

NextCount ==
    \/ ParseStart \/ ParseStmt \/ ParseEnd \/ Execute
    \/ OP_KINT \/ OP_ARITH \/ OP_REL \/ OP_JMP \/ OP_RET0

SpecCount ==
    /\ InitCount /\ [][NextCount]_vars
    /\ WF_vars(Execute \/ OP_KINT \/ OP_ARITH \/ OP_REL \/ OP_JMP \/ OP_RET0)

\* ------------------------------------------- state.c: protected calls

\* lua.h (not part of the repository): the status codes of trigger's callers
LUA_ERRRUN == 2
LUA_ERRSYNTAX == 3
LUA_ERRMEM == 4

\* protected calls are nested at most this deep
MaxDepth == 3
\* a protected call is entered, and its victim pushes, below this height
MaxTop == 2

compiler_vars ==
    <<prog, P, phase, stack, call_stack, num_calls, max_calls, fn, ip, s, garbage, patch,
      pool>>

\* the message string err_msg builds for an error of the given status
ErrMsg(status) == str2v(IF status = LUA_ERRSYNTAX THEN "syntax" ELSE "run")

\* *(L->top++) = v.  The reallocation of a full stack is out of reach of the
\* heights considered (L->stack_size is 4096).
stack_push(l, v) ==
    [l EXCEPT !.stack = IF l.top < Len(@) THEN [@ EXCEPT ![l.top + 1] = v]
                        ELSE Append(@, v),
              !.top = @ + 1]

\* *(--L->top); below the stack's first entry the read is out of bounds
stack_pop(l) ==
    [l |-> [l EXCEPT !.top = @ - 1],
     v |-> IF l.top > 0 THEN l.stack[l.top] ELSE garbage]

\* err_msg: the message is pushed on the stack
err_msg(l, status) == stack_push(l, ErrMsg(status))

\* trigger: the status is stored in the current recovery point and control
\* jumps to the pcall that owns it, leaving every activation above it;
\* without a recovery point the process exits
trigger(l, cs, status) ==
    CASE l.err = 0 -> [l |-> [l EXCEPT !.halt = "exit"], cs |-> <<>>]
      [] l.err \in 1..Len(cs) ->
            [l |-> l,
             cs |-> [SubSeq(cs, 1, l.err) EXCEPT ![l.err].err.status = status,
                                                 ![l.err].pc = "after"]]
      [] OTHER -> [l |-> [l EXCEPT !.halt = "undefined"], cs |-> cs]

\* the innermost protected call is running its function
CurCall == pcalls[Len(pcalls)]
InVictim == IF L.halt = "" /\ Len(pcalls) > 0 THEN CurCall.pc = "f" ELSE FALSE
\* the host, or a protected function other than parse, is running
Running == IF Len(pcalls) = 0 THEN L.halt = "" ELSE InVictim /\ CurCall.by = "pcall"

\* pcall up to the call of f: the top is saved, a fresh Err is linked in
\* front of L->err.  below keeps the entries under the saved top as they were.
pcall_enter(by) ==
    Append(pcalls, [by |-> by, saved_top |-> L.top,
                    err |-> [parent |-> L.err, status |-> 0],
                    pc |-> "f", below |-> SubSeq(L.stack, 1, L.top)])

\* lua_load up to the call of parse
lua_load ==
    /\ Running
    /\ Len(pcalls) < MaxDepth
    /\ L.top < MaxTop
    /\ pcalls' = pcall_enter("lua_load")
    /\ L' = [L EXCEPT !.err = Len(pcalls) + 1]
    /\ UNCHANGED <<event, compiler_vars>>

\* pcall of any other protected function
pcall ==
    /\ Running
    /\ Len(pcalls) < MaxDepth
    /\ L.top < MaxTop
    /\ pcalls' = pcall_enter("pcall")
    /\ L' = [L EXCEPT !.err = Len(pcalls) + 1]
    /\ UNCHANGED <<event, compiler_vars>>

\* a protected function other than parse pushes a value
f_push ==
    /\ InVictim
    /\ CurCall.by = "pcall"
    /\ L.top < MaxTop
    /\ L' = stack_push(L, n2v(1))
    /\ UNCHANGED <<pcalls, event, compiler_vars>>

\* the protected function returns; parse first pushes the prototype
f_return ==
    /\ InVictim
    /\ L' = IF CurCall.by = "lua_load" THEN stack_push(L, fn2v(1)) ELSE L
    /\ pcalls' = [pcalls EXCEPT ![Len(pcalls)].pc = "after"]
    /\ UNCHANGED <<event, compiler_vars>>

\* err_syntax and err_run: err_msg, then trigger with the status
Raise(status) ==
    LET tr == trigger(IF status = LUA_ERRMEM THEN L ELSE err_msg(L, status),
                      pcalls, status)
    IN  /\ L' = tr.l
        /\ pcalls' = tr.cs
        /\ event' = [ev |-> "raise", depth |-> Len(pcalls), status |-> status]
        /\ UNCHANGED compiler_vars

err_syntax_raised == InVictim /\ Raise(LUA_ERRSYNTAX)

\* parse raises no runtime error
err_run_raised == InVictim /\ CurCall.by = "pcall" /\ Raise(LUA_ERRRUN)

\* realloc_raw: the allocator returned NULL
err_mem_raised == InVictim /\ Raise(LUA_ERRMEM)

\* pcall after LUAI_TRY: the recovery point is restored and, when a status
\* was raised, the top value is popped, the top restored and the value pushed
\* back.  stack_pop asserts that the stack is not empty; with NDEBUG it reads
\* below the stack.
pcall_return ==
    /\ L.halt = ""
    /\ Len(pcalls) > 0
    /\ CurCall.pc = "after"
    /\ \E build \in {"assert", "NDEBUG"} :
        LET c == CurCall
            l1 == [L EXCEPT !.err = c.err.parent]
            popped == stack_pop(l1)
        IN  IF c.err.status # 0 /\ l1.top = 0 /\ build = "assert"
            THEN /\ L' = [l1 EXCEPT !.halt = "abort"]
                 /\ UNCHANGED <<pcalls, event>>
            ELSE /\ L' = IF c.err.status # 0
                         THEN stack_push([popped.l EXCEPT !.top = c.saved_top], popped.v)
                         ELSE l1
                 /\ pcalls' = IF c.by = "pcall" THEN SubSeq(pcalls, 1, Len(pcalls) - 1)
                              ELSE [pcalls EXCEPT ![Len(pcalls)].pc = "print_err"]
                 /\ event' = [ev |-> "pcall", depth |-> Len(pcalls), status |-> c.err.status]
    /\ UNCHANGED compiler_vars

\* lua_load after pcall: print_err pops the error value of a failed load,
\* asserting that a value that is not nil is a string, and load returns
lua_load_return ==
    /\ L.halt = ""
    /\ Len(pcalls) > 0
    /\ CurCall.pc = "print_err"
    /\ \E build \in {"assert", "NDEBUG"} :
        LET c == CurCall
            popped == stack_pop(L)
        IN  IF c.err.status # 0 /\ popped.v # VAL_NIL /\ popped.v.t # "str"
               /\ build = "assert"
            THEN /\ L' = [popped.l EXCEPT !.halt = "abort"]
                 /\ UNCHANGED <<pcalls, event>>
            ELSE /\ L' = IF c.err.status # 0 THEN popped.l ELSE L
                 /\ pcalls' = SubSeq(pcalls, 1, Len(pcalls) - 1)
                 /\ event' = [ev |-> "lua_load", depth |-> Len(pcalls), status |-> c.err.status]
    /\ UNCHANGED compiler_vars

\* the compiler and the interpreter stay where lua_newstate left them
InitPcall == Init /\ prog = Prog("kint", n2v(0), VAL_NIL, VAL_NIL, 1)

NextPcall ==
    \/ lua_load \/ pcall \/ f_push \/ f_return
    \/ err_syntax_raised \/ err_run_raised \/ err_mem_raised
    \/ pcall_return \/ lua_load_return

SpecPcall == InitPcall /\ [][NextPcall]_vars

\* ------------------------------------------------- patch_jmp on its own

\* the PCs and targets tried lie within this distance of 0 and of JMP_BIAS
MaxNear == 3

\* PCs of a function long enough for a jump to leave the 24-bit field
FarPcs == (0..MaxNear) \cup ((JMP_BIAS - MaxNear)..(JMP_BIAS + MaxNear))

\* a JMP of the function at 'jmp' and the target it is to be patched to
\* (a PC up to num_ins, or JMP_NONE at the end of a jump list)
InitPatch ==
    /\ prog = Prog("kint", n2v(0), VAL_NIL, VAL_NIL, 1)
    /\ P = [toks |-> Chunk(prog), f |-> <<>>, fns |-> <<>>,
            status |-> "", err |-> "", failed |-> {}, seen |-> {}, oob |-> "trap"]
    /\ phase = "init"
    /\ stack = [j \in {} |-> VAL_NIL]
    /\ call_stack = <<>>
    /\ num_calls = 0
    /\ max_calls = InitMaxCalls
    /\ fn = 0
    /\ ip = 0
    /\ s = 0
    /\ garbage = VAL_NIL
    /\ L = [stack |-> <<>>, top |-> 0, err |-> 0, halt |-> ""]
    /\ pcalls = <<>>
    /\ event = [ev |-> "none", depth |-> 0, status |-> 0]
    /\ \E j \in FarPcs, tg \in FarPcs \cup {JMP_NONE} :
          patch = [jmp |-> j, target |-> tg, ins |-> ins0(BC("JMP")),
                   err |-> "", done |-> FALSE]
    /\ pool = fn_new_k

PatchJmp ==
    /\ ~patch.done
    /\ LET r == patch_ins(patch.ins, patch.jmp, patch.target)
       IN  patch' = [patch EXCEPT !.ins = r.ins, !.err = r.err, !.done = TRUE]
    /\ UNCHANGED <<prog, P, phase, stack, call_stack, num_calls, max_calls, fn, ip, s,
                   garbage, L, pcalls, event, pool>>

NextPatch == PatchJmp

SpecPatch == InitPatch /\ [][NextPatch]_vars

\* ------------------------------------------------ the constant pool alone
\* fn_emit_k and emit_k on one function, from fn_new up to the constant that
\* raises "too many constants in function".  The values stored play no part.

\* sizeof(BcIns) and sizeof(uint64_t)
SIZEOF_BCINS == 4
SIZEOF_K == 8

\* the growth step of fn_emit_k: [max_k, bytes] after "if (num_k >= max_k)"
k_grow(pl) ==
    IF pl.num_k >= pl.max_k
    THEN [pl EXCEPT !.bytes = pl.max_k * SIZEOF_BCINS * 2, !.max_k = pl.max_k * 2]
    ELSE pl

\* the write k[num_k] lies inside the allocation
k_write_inside(pl) == (pl.num_k + 1) * SIZEOF_K <= pl.bytes

\* fn_emit_k followed by the test of emit_k and the cast of the caller
\* (width 8: inline_uint8_num, taken only with num_k <= UINT8_MAX; width 16:
\* inline_uint16_num, inline_uint16_const and to_slot).  A write past the
\* allocation either traps or lands in memory next to the pool.
emit_k_pool(pl, width, outcome) ==
    LET g == k_grow(pl)
        idx == g.num_k
        g1 == [g EXCEPT !.num_k = idx + 1, !.idx = idx, !.width = width]
    IN  IF ~k_write_inside(g) /\ outcome = "trap"
        THEN [g EXCEPT !.halt = "undefined", !.idx = idx, !.width = width]
        ELSE IF idx > UINT16_MAX
        THEN [g1 EXCEPT !.err = "too many constants in function"]
        ELSE [g1 EXCEPT !.operand = IF width = 8 THEN idx % 256 ELSE idx % 65536]

InitPool ==
    /\ prog = Prog("kint", n2v(0), VAL_NIL, VAL_NIL, 1)
    /\ P = [toks |-> Chunk(prog), f |-> <<>>, fns |-> <<>>,
            status |-> "", err |-> "", failed |-> {}, seen |-> {}, oob |-> "trap"]
    /\ phase = "init"
    /\ stack = [j \in {} |-> VAL_NIL]
    /\ call_stack = <<>>
    /\ num_calls = 0
    /\ max_calls = InitMaxCalls
    /\ fn = 0
    /\ ip = 0
    /\ s = 0
    /\ garbage = VAL_NIL
    /\ L = [stack |-> <<>>, top |-> 0, err |-> 0, halt |-> ""]
    /\ pcalls = <<>>
    /\ event = [ev |-> "none", depth |-> 0, status |-> 0]
    /\ patch = [jmp |-> 0, target |-> 0, ins |-> ins0(BC("JMP")), err |-> "", done |-> FALSE]
    /\ pool = fn_new_k

EmitK ==
    /\ pool.err = "" /\ pool.halt = ""
    /\ \E width \in {8, 16}, outcome \in {"trap", "pass"} :
          /\ width = 8 => pool.num_k <= UINT8_MAX
          /\ pool' = emit_k_pool(pool, width, outcome)
    /\ UNCHANGED <<prog, P, phase, stack, call_stack, num_calls, max_calls, fn, ip, s,
                   garbage, L, pcalls, event, patch>>

NextPool == EmitK

SpecPool == InitPool /\ [][NextPool]_vars


\* ------------------------------------------------------------ properties

\* the value of absolute stack slot i of st; a slot never written holds
\* whatever the allocation held
SlotOf(st, i) == IF i \in DOMAIN st THEN st[i] ELSE garbage
Slot(i) == SlotOf(stack, i)

\* the run of the chunk is over, one way or another
Stopped == phase \in {"done", "run_err", "undefined", "abort", "syntax_err"}

\* Lua's reference semantics of the logical operators
LuaAnd(a, b) == IF compares_true(a) THEN b ELSE a
LuaOr(a, b) == IF compares_true(a) THEN a ELSE b
LuaNot(a) == IF compares_true(a) THEN VAL_FALSE ELSE VAL_TRUE

\* what AndOrExpr(pr.n), n in 1..6, denotes over a = va, b = vb, x = vx
AndOrValue(pr) ==
    CASE pr.n = 1 -> LuaAnd(pr.va, pr.vb)
      [] pr.n = 2 -> LuaOr(pr.va, pr.vb)
      [] pr.n = 3 -> LuaOr(LuaAnd(pr.va, pr.vb), pr.vx)
      [] pr.n = 4 -> LuaAnd(LuaAnd(pr.va, pr.vb), pr.vx)
      [] pr.n = 5 -> LuaOr(LuaOr(pr.va, pr.vb), pr.vx)
      [] OTHER -> LuaOr(pr.va, LuaAnd(pr.vb, pr.vx))

\* C1: after the compiler has parsed any statement, the current function
\* scope's num_stack equals its num_locals.  Between two statements of the
\* chunk this is read off the scope; for the statements of nested blocks and
\* function bodies it is the assertion at the end of parse_stmt.
C1_StackEqualsLocalsAfterStmt ==
    /\ "parse_stmt" \notin P.failed
    /\ (phase = "parse" /\ Len(P.f) > 0) => F(P).num_stack = F(P).num_locals

\* C2: after `a, b = b, a` (n = 1) and `a, b, x = b, x, a` (n = 2) over the
\* locals a, b, x in slots 0, 1, 2, every variable holds the value its
\* right-hand expression had before the statement.
C2_MultipleAssignUsesOldValues ==
    (Stopped /\ prog.kind = "assign" /\ prog.n \in {1, 2}) =>
        /\ phase = "done"
        /\ Slot(0) = prog.vb
        /\ Slot(1) = (IF prog.n = 1 THEN prog.va ELSE prog.vx)
        /\ Slot(2) = (IF prog.n = 1 THEN prog.vx ELSE prog.va)

\* C3: with a(a, b) returning a+1, b+2, a+3 and x, y, z in slots 1, 2, 3:
\* `x, y = a(1,2), 100` gives x = 2, y = 100; `x, y, z = 50, a(1,2)` gives
\* 50, 2, 4; `x, y, z = 50, a(1,2), 40` gives 50, 2, 40.
C3_AssignWithCalls ==
    (Stopped /\ prog.kind = "callassign") =>
        /\ phase = "done"
        /\ CASE prog.n = 1 -> Slot(1) = n2v(2) /\ Slot(2) = n2v(100)
             [] prog.n = 2 -> Slot(1) = n2v(50) /\ Slot(2) = n2v(2) /\ Slot(3) = n2v(4)
             [] OTHER -> Slot(1) = n2v(50) /\ Slot(2) = n2v(2) /\ Slot(3) = n2v(40)

\* C4: `local x, ... = a(1, 2)` with a returning a+1, b+2, a+3 declares
\* 1, 2 or 4 locals (slots 1..) holding (2), (2, 4) and (2, 4, 4, nil).
C4_LocalDeclFromCall ==
    (Stopped /\ prog.kind = "calldecl") =>
        /\ phase = "done"
        /\ Slot(1) = n2v(2)
        /\ prog.n >= 2 => Slot(2) = n2v(4)
        /\ prog.n >= 4 => (Slot(3) = n2v(4) /\ Slot(4) = VAL_NIL)

\* C5: a CALL A B C of a function pushes one frame recording the caller's
\* function, ip, base and C, and continues at the callee's first instruction
\* with the callee's base at the caller's base + A + 1, whatever that first
\* instruction is.
C5_CallEntersCalleeAtBasePlusA1 ==
    [][(phase = "run" /\ Op = "CALL" /\ is_fn(R(bc_a(Cur))) /\ phase' = "run") =>
        /\ num_calls' = num_calls + 1
        /\ call_stack'[num_calls'] = CallInfo(fn, ip, s, bc_c(Cur))
        /\ fn' = R(bc_a(Cur)).v
        /\ ip' = 0
        /\ s' = s + bc_a(Cur) + 1]_vars

\* the CALL instruction a frame was pushed by
CallIns(c) == P.fns[c.fn].ins[c.ip + 1]
\* the number of values the return instruction at ip returns, and the i-th
RetCount == CASE Op = "RET0" -> 0 [] Op = "RET1" -> 1 [] OTHER -> bc_d(Cur)
RetValue(i) == IF Op = "RET1" THEN R(bc_d(Cur)) ELSE R(bc_a(Cur) + i)

\* C6: a return of n values to a frame expecting C leaves the returned
\* values in the caller's slots A, A+1, ... (A the slot of the CALL that held
\* the callee), nil in the slots from A+n up to A+C-1, and resumes the caller
\* after its CALL with its function and base restored.
C6_ReturnFillsCallerSlots ==
    [][(phase = "run" /\ Op \in {"RET0", "RET1", "RET"} /\ num_calls > 0) =>
        LET c == TopCall
            A == bc_a(CallIns(c))
        IN  /\ fn' = c.fn /\ s' = c.s /\ ip' = c.ip + 1
            /\ num_calls' = num_calls - 1
            /\ \A i \in 0..(c.num_rets - 1) :
                SlotOf(stack', c.s + A + i) =
                    (IF i < RetCount THEN RetValue(i) ELSE VAL_NIL)]_vars

\* C7: a function returning one expression returns the value of the slot
\* that holds it, whichever slot that is: with f(a, b) returning b (slot 1 of
\* f), `local x = f(va, vb)` leaves vb in x; with f(a) returning a + 1 (a
\* temporary in slot 1 of f) and va a number, `local x = f(va)` leaves
\* va + 1 in x.  x is slot 1 of the chunk.
C7_Ret1DeliversNamedSlot ==
    (Stopped /\ prog.kind = "ret1" /\ (prog.n = 0 \/ is_num(prog.va))) =>
        /\ phase = "done"
        /\ Slot(1) = (IF prog.n = 0 THEN prog.vb ELSE n2v(prog.va.v + 1))

\* C8: a CALL whose slot A holds no function raises a runtime error, and
\* no frame has been pushed when it is raised.
C8_CallOfNonFunctionRaises ==
    [][(phase = "run" /\ Op = "CALL" /\ ~is_fn(R(bc_a(Cur)))) =>
        (phase' = "run_err" /\ num_calls' = num_calls)]_vars

\* C9: over locals a, b, x holding any values, `a and b`, `a or b`,
\* `a and b or x`, `a and b and x`, `a or b or x` and `a or b and x` evaluate
\* to the operand Lua's semantics choose, the operand's own value.
C9_AndOrYieldOperand ==
    (Stopped /\ prog.kind = "andor" /\ prog.n \in 1..6) =>
        (phase = "done" /\ Slot(3) = AndOrValue(prog))

\* C9's case: `a and b or x` with a and b numbers has run and left b's
\* value, not a boolean, in the result
C9_Witness ==
    /\ phase = "done"
    /\ prog = Prog("andor", n2v(MaxNum - 1), n2v(MaxNum), VAL_NIL, 3)
    /\ Slot(3) = n2v(MaxNum)

\* C10: NOT A D stores true in slot A when slot D holds nil or false, and
\* false when it holds any other value.
C10_NotStoresNegation ==
    [][(phase = "run" /\ Op = "NOT") =>
        SlotOf(stack', s + bc_a(Cur)) = LuaNot(R(bc_d(Cur)))]_vars

\* the chunk is compiled: its prototype is final
Compiled == phase \in {"loaded", "run", "done", "run_err"}

\* the first instruction of the chunk's prototype
FirstIns == P.fns[1].ins[1]

\* KPRIM 0, true or false: what `local r = <constant>` compiles to
KPrimBool(b) == ins2(BC("KPRIM"), 0, IF b THEN TAG_TRUE ELSE TAG_FALSE)

\* C11: `not` of a constant is folded to the constant true when the operand
\* is nil or false, and to the constant false when it is true, a number or a
\* string: `local r = not <constant>` is compiled to one KPRIM of that value.
C11_NotFoldsToNegation ==
    (Compiled /\ prog.kind = "fold" /\ prog.n = 1) =>
        FirstIns = KPrimBool(~compares_true(prog.va))

\* C13: `==` of two constants folds to true exactly when both are the same
\* constant, and `~=` folds to the negation of that, also for constants of
\* different kinds.
C13_EqFoldsToComparison ==
    (Compiled /\ prog.kind = "fold" /\ prog.n \in 2..3) =>
        FirstIns = KPrimBool((prog.va = prog.vb) = (prog.n = 2))

\* the truth value of l op r for the numbered ordered comparison
RelHolds(n, l, r) ==
    CASE RelTk(n) = "<" -> l < r
      [] RelTk(n) = "<=" -> l <= r
      [] RelTk(n) = ">" -> l > r
      [] OTHER -> l >= r

Bool2v(b) == IF b THEN VAL_TRUE ELSE VAL_FALSE

\* C12: an ordered comparison with a numeric constant on the left and a local
\* on the right yields the truth value of the source comparison:
\* `local r = vb op a` leaves vb op va in r (slot 1), for op in <, <=, >, >=.
C12_ConstLeftComparison ==
    (Stopped /\ prog.kind = "rel" /\ prog.n \in 1..4) =>
        /\ phase = "done"
        /\ Slot(1) = Bool2v(RelHolds(prog.n, prog.vb.v, prog.va.v))

\* the number written in a "kint" chunk
KintSource == IF prog.n = 1 THEN prog.va.v ELSE 0 - prog.va.v

\* C14: a numeric constant materialised with KINT is loaded as exactly that
\* number: when `local r = k` or `local r = -k` compiles to a KINT, the chunk
\* leaves the number written in the source in r (slot 0).
C14_KintLoadsSourceNumber ==
    (Stopped /\ prog.kind = "kint" /\ FirstIns.op = BC("KINT")) =>
        /\ phase = "done"
        /\ Slot(0) = n2v(KintSource)

\* ---- protected calls (SpecPcall)

\* the step in which lua_load returns to its caller
LoadReturns ==
    IF L.halt = "" /\ Len(pcalls) > 0
    THEN CurCall.pc = "print_err" /\ Len(pcalls') < Len(pcalls)
    ELSE FALSE

\* the value lua_load is to leave on the stack
LoadValue(status) ==
    CASE status = 0 -> fn2v(1)
      [] status = LUA_ERRSYNTAX -> ErrMsg(LUA_ERRSYNTAX)
      [] OTHER -> VAL_NIL

\* C15: when lua_load returns, the stack is one entry higher than when it was
\* called, and the new top entry is the prototype (status OK), the error
\* message (SYNTAX_ERR) or nil (MEM_ERR).
C15_LoadPushesOneValue ==
    [][LoadReturns =>
          /\ L'.top = CurCall.saved_top + 1
          /\ L'.stack[L'.top] = LoadValue(CurCall.err.status)]_vars

\* the step in which pcall returns after its protected function raised
PcallCatches ==
    IF L.halt = "" /\ Len(pcalls) > 0
    THEN CurCall.pc = "after" /\ CurCall.err.status # 0 /\ L'.halt = ""
         /\ pcalls' # pcalls
    ELSE FALSE

\* the error value of a raised status
Raised(status) == IF status = LUA_ERRMEM THEN VAL_NIL ELSE ErrMsg(status)

\* C16: when the protected function raised an error, pcall returns with the
\* top one above the top saved at entry, the error value raised (nil for
\* MEM_ERR) on top, and the entries below the saved top as they were.
C16_PcallLeavesErrorValue ==
    [][PcallCatches =>
          /\ L'.top = CurCall.saved_top + 1
          /\ L'.stack[L'.top] = Raised(CurCall.err.status)
          /\ SubSeq(L'.stack, 1, CurCall.saved_top) = CurCall.below]_vars

\* the step in which a protected function raises an error
RaiseStep == InVictim /\ pcalls' # pcalls /\ event'.ev = "raise"

\* the step in which pcall returns, normally or after an error
PcallReturns ==
    IF L.halt = "" /\ Len(pcalls) > 0
    THEN CurCall.pc = "after" /\ L'.halt = "" /\ pcalls' # pcalls
    ELSE FALSE

\* the recovery points installed: one for each pcall that has not yet left
\* its protected region
Boundaries ==
    Len(pcalls) - (IF Len(pcalls) > 0 /\ CurCall.pc = "print_err" THEN 1 ELSE 0)

\* a pcall is past LUAI_TRY, about to restore the recovery point
AfterTry == IF L.halt = "" /\ Len(pcalls) > 0 THEN CurCall.pc = "after" ELSE FALSE

\* the error goes to the innermost pcall only (no enclosing activation is
\* left or altered), a pcall that returns returns the status raised (0 when
\* nothing was raised), and L->err is then the recovery point of the
\* enclosing pcall again, the one current when the pcall was entered
CaughtByInnermost ==
    /\ RaiseStep =>
          /\ Len(pcalls') = Len(pcalls)
          /\ \A i \in 1..(Len(pcalls) - 1) : pcalls'[i] = pcalls[i]
          /\ pcalls'[Len(pcalls)].pc = "after"
          /\ pcalls'[Len(pcalls)].err.status = event'.status
    /\ PcallReturns =>
          /\ event'.ev = "pcall"
          /\ event'.depth = Len(pcalls)
          /\ event'.status = (IF event.ev = "raise" THEN event.status ELSE 0)
          /\ event.ev = "raise" => event.depth = Len(pcalls)
          /\ L'.err = Len(pcalls) - 1
    /\ L'.halt = "" => L'.err = Boundaries'

\* C17: an error raised under nested protected calls is caught by the
\* innermost pcall only, that pcall returns (the step it takes after
\* LUAI_TRY is its return) with the status raised, and when a pcall returns
\* L->err is again the recovery point that was current when it was entered.
C17_InnermostPcallCatches ==
    [][CaughtByInnermost /\ (AfterTry => L'.halt = "")]_vars

\* ---- patch_jmp (SpecPatch)

\* the value patch_jmp is to store in E
PatchOffset == patch.target - patch.jmp + JMP_BIAS

\* C18: patch_jmp raises "control structure too long" whenever
\* target - jmp + JMP_BIAS does not fit in the 24-bit E field, above
\* (>= 2^24) and below (< 0), and otherwise stores exactly that value in E.
C18_PatchJmpChecksRange ==
    patch.done =>
        IF PatchOffset >= 0 /\ PatchOffset < 16777216
        THEN patch.err = "" /\ bc_e(patch.ins) = PatchOffset
        ELSE patch.err = "control structure too long"

\* ---- jumps of finished prototypes (Spec)

\* the PC the interpreter's JMP at pc goes to (ip += E - JMP_BIAS)
JmpTarget(f, pc) == pc + bc_e(f.ins[pc + 1]) - JMP_BIAS

\* the PCs of the JMP instructions of a prototype
JmpPcs(f) == {pc \in 0..(Len(f.ins) - 1) : bc_op(f.ins[pc + 1]) = BC("JMP")}

C20_TooManyLocalsAt256 ==
    prog.kind = "locals" =>
        /\ phase \notin {"undefined", "abort"}
        /\ phase = "syntax_err" =>
              /\ P.err = "too many local variables in function"
              /\ F(P).num_stack = UINT8_MAX
        /\ prog.n <= UINT8_MAX => phase # "syntax_err"
        /\ phase = "parse" => F(P).num_locals <= UINT8_MAX

\* ---- the constant pool (SpecPool)

\* the last emit_k returned normally, or raised the error, with these facts:
\* the error is raised exactly for the index 65536, and an index that was
\* returned reaches the instruction whole
PoolIndexKept ==
    /\ (pool.err # "") <=> (pool.idx = UINT16_MAX + 1)
    /\ pool.err = "" => pool.operand = pool.idx

\* C21: adding constants to one function succeeds for the indices 0..65535,
\* the 65,537th constant raises "too many constants in function", and the
\* operand of an instruction is never a truncated index.  Succeeding includes
\* that the constant is stored inside the pool's memory.
C21_ConstantPoolLimit ==
    /\ pool.halt = ""
    /\ PoolIndexKept
    /\ pool.err # "" => pool.err = "too many constants in function"

\* ---- break (Spec)

\* the instructions that test a condition and skip the JMP after them
TestOps ==
    {BC(n) : n \in {"IST", "ISTC", "ISF", "ISFC", "EQVV", "EQVP", "EQVN", "EQVS",
                    "NEQVV", "NEQVP", "NEQVN", "NEQVS", "LTVV", "LTVN", "LEVV", "LEVN",
                    "GTVV", "GTVN", "GEVV", "GEVN"}}

\* the forward JMPs that do not belong to a test.  In a chunk without else
\* the JMPs that belong to no test are the one that closes each while loop,
\* which jumps back, and the ones of the break statements.
FwdJmps(f) ==
    {pc \in JmpPcs(f) : /\ pc = 0 \/ bc_op(f.ins[pc]) \notin TestOps
                        /\ JmpTarget(f, pc) > pc}

\* the JMPs that close a loop around pc: they follow pc and jump back to pc
\* or before it.  The first of them closes the innermost loop.
LoopEnds(f, pc) == {e \in JmpPcs(f) : e > pc /\ JmpTarget(f, e) <= pc}

\* the number of break statements of the chunk
BreakTokens ==
    Cardinality({i \in 1..Len(Breaks(prog.n)) : Breaks(prog.n)[i].t = "break"})

\* every break of the prototype jumps to the instruction after the JMP that
\* closes its innermost loop
BreaksLeaveInnermost(f) ==
    /\ Cardinality(FwdJmps(f)) = BreakTokens
    /\ \A pc \in FwdJmps(f) :
          /\ LoopEnds(f, pc) # {}
          /\ \E e \in LoopEnds(f, pc) :
                /\ \A e2 \in LoopEnds(f, pc) : e <= e2
                /\ JmpTarget(f, pc) = e + 1

C22_ErrorReached ==
    /\ prog.kind = "breaks" /\ prog.n = 3
    /\ phase = "syntax_err" /\ P.err = "no loop to break"

\* ---- line information (Spec)

\* C23: in every compiled prototype each instruction has a source line of at
\* least 1 in line_info, the JMPs of conditions, loops, break and
\* short-circuit operators included.
C23_LineInfoPositive ==
    Compiled =>
        \A i \in 1..Len(P.fns) : \A pc \in 1..Len(P.fns[i].ins) :
            P.fns[i].line_info[pc] >= 1

\* ---- arithmetic on a value that is no number (Spec)

\* the operands of the arithmetic instruction at ip, as the handler reads them
ArithL == IF Op = "SUBNV" THEN K(bc_b(Cur)) ELSE R(bc_b(Cur))
ArithR == IF Op \in {"ADDVN", "SUBVN", "MULVN"} THEN K(bc_c(Cur)) ELSE R(bc_c(Cur))

\* an arithmetic instruction is about to run on a slot that holds no number
ArithOnNonNumber ==
    /\ phase = "run" /\ Op \in ArithOps
    /\ ~(is_num(ArithL) /\ is_num(ArithR))

\* the message in the form "attempt to add a nil and number value"
ClaimedMessage(verb, l, r) ==
    "attempt to " \o verb \o " a " \o type_name(l) \o " and " \o type_name(r) \o " value"

\* C24: an arithmetic instruction on a slot that holds no number raises a
\* runtime error (status RUN_ERR) without writing a result: the only change of
\* the stack is the error value that err_run pushes, and that value is the
\* message "attempt to <verb> a <type> and <type> value".
C24_ArithErrorMessage ==
    [][ArithOnNonNumber =>
          /\ phase' = "run_err"
          /\ stack' = Write(stack, 0, str2v(ClaimedMessage(ArithVerb(Op), ArithL, ArithR)))
      ]_vars

\* ---- local without a name (Spec)

\* the token after the keyword local in the chunk
AfterLocal == NoName(prog.n)[2]

\* C25: a chunk in which the keyword local is followed by neither an
\* identifier nor the keyword function does not compile: the compiler stops
\* with a syntax error whose message is "expected identifier, found <token>"
\* ("end of file" for local at the end of the chunk), and no declaration
\* without names is accepted.
C25_LocalNeedsName ==
    prog.kind = "noname" =>
        /\ ~Compiled /\ phase \notin {"undefined", "abort"}
        /\ phase = "syntax_err" =>
              P.err = "expected identifier, found "
                         \o tk2str(IF prog.n = 1 THEN "eof" ELSE AfterLocal.t)

\* ---- the counting loop (SpecCount)

\* the JMPs of a prototype that jump back
BackJmps(f) == {pc \in JmpPcs(f) : JmpTarget(f, pc) <= pc}

\* the loop begins after the one instruction of `local i = 0`: a test of i at
\* start with its exit JMP after it, the body, and one JMP back to start; the
\* exit goes to the instruction after that JMP
CountingLoop(f) ==
    LET start == 1
    IN  /\ Cardinality(BackJmps(f)) = 1
        /\ \A e \in BackJmps(f) :
              /\ JmpTarget(f, e) = start
              /\ bc_op(f.ins[start + 1]) \in TestOps
              /\ start + 1 \in JmpPcs(f)
              /\ JmpTarget(f, start + 1) = e + 1
              /\ e > start + 2
              /\ \A pc \in (start + 2)..(e - 1) : pc \notin JmpPcs(f)

\* i has gone from 0 to n, one by one, and the chunk has returned
CountDone == phase = "done" /\ Slot(0) = n2v(prog.n)

\* C26: `local i = 0; while i < n do i = i + 1 end` (n = 10 and its
\* neighbours) compiles to a test at the loop start, the body and exactly one
\* backward JMP to the loop start, the exit of the condition going to the
\* instruction after that JMP; the run raises no error, i never passes n, and
\* the run comes to its end with i = n.
C26_CountingLoop ==
    /\ [](prog.kind = "count" =>
            /\ phase \notin {"syntax_err", "run_err", "undefined", "abort"}
            /\ Compiled => CountingLoop(P.fns[1])
            /\ phase = "run" /\ is_num(Slot(0)) => Slot(0).v <= prog.n
            /\ phase = "done" => CountDone)
    /\ (prog.kind = "count" /\ phase = "loaded" ~> CountDone)

\* C26 witness: the loop of the claim (n = 10) has run to its end
C26_Witness ==
    /\ prog.kind = "count" /\ prog.n = 10
    /\ CountDone
    /\ CountingLoop(P.fns[1])

\* ---- jump lists (Spec)

\* C27: while a chunk is compiled, every PC a walk along a jump list stands on
\* is the PC of a JMP instruction, and patch_val and discard_val, called for
\* one jump, never write to another JMP instruction (whose A operand is the
\* low byte of its E field).
C27_JumpListsHoldJmps ==
    /\ "a jump list holds a PC that is no JMP" \notin P.seen
    /\ "the value of a jump is another JMP" \notin P.seen

\* C28: after append_jmp(&head, to_add) with both lists non-empty the list at
\* the new head is every jump of to_add, in order, followed by every jump of
\* the old head list.
C28_AppendKeepsEveryJump == "append_jmp drops a jump" \notin P.seen

\* ---- or with a constant false or nil on the left (Spec)

\* the code after the three declarations holds no JMP and loads no primitive
NoJmpNoPrim(f) ==
    \A pc \in 3..(Len(f.ins) - 1) : bc_op(f.ins[pc + 1]) \notin {BC("JMP"), BC("KPRIM")}

\* C29: `false or v` and `nil or v` (assigned to the local x, or declared as
\* a new local r, v being a local) compile without a jump and without a value
\* for the left operand, and the variable gets the value of v.
C29_FalseOrYieldsRight ==
    prog.kind = "constor" =>
        /\ phase \notin {"syntax_err", "run_err", "undefined", "abort"}
        /\ Compiled => NoJmpNoPrim(P.fns[1])
        /\ phase = "done" => IF prog.n <= 2 THEN Slot(2) = prog.va ELSE Slot(3) = prog.vb

\* ---- assignment with fewer expressions than variables (Spec)

\* C30: over the locals a, b, x in slots 0, 1, 2, `a, b = b` gives a the
\* value of b, makes b nil and leaves x alone; `a, b, x = b` gives a the
\* value of b and makes b and x nil; `a, b, x = b, a` gives a and b the
\* old values of b and a and makes x nil.
C30_FewerExprsThanVars ==
    (Stopped /\ prog.kind = "fewer") =>
        /\ phase = "done"
        /\ Slot(0) = prog.vb
        /\ Slot(1) = (IF prog.n <= 2 THEN VAL_NIL ELSE prog.va)
        /\ Slot(2) = (IF prog.n = 1 THEN prog.vx ELSE VAL_NIL)

\* ---- a declaration from a short-circuit expression ending in a call (Spec)

\* C31: with f returning its first argument and x, v in slots 1, 2,
\* `local v = x and f(vb, nil)` leaves in v the value of x when x is false or
\* nil and vb otherwise; `local v = x or f(vb, nil)` leaves x when x is
\* neither false nor nil and vb otherwise.
C31_ShortCircuitCallDeclared ==
    (Stopped /\ prog.kind = "shortcall") =>
        /\ phase = "done"
        /\ Slot(2) = (IF prog.n = 1 THEN LuaAnd(prog.va, prog.vb)
                                    ELSE LuaOr(prog.va, prog.vb))

\* ---- not applied to a short-circuit expression (Spec)

\* C32: over locals a and b holding any values, `local r = not (a and b)`
\* and `local r = not (a or b)` leave in r (slot 3) true when the expression
\* in parentheses is nil or false, and false otherwise.
C32_NotOfShortCircuit ==
    (Stopped /\ prog.kind = "notshort") =>
        /\ phase = "done"
        /\ Slot(3) = LuaNot(IF prog.n = 1 THEN LuaAnd(prog.va, prog.vb)
                                           ELSE LuaOr(prog.va, prog.vb))

\* ---- the call-info stack (Spec)

\* C33: a CALL of a function that finds the call-info stack full doubles it,
\* and on every CALL of a function the frames pushed before are kept and the
\* frame of this CALL (function, return ip, base, expected returns) is on top
\* of them, the run going on in the callee.
C33_CallStackGrowthKeepsFrames ==
    [][(phase = "run" /\ Op = "CALL" /\ is_fn(R(bc_a(Cur)))) =>
        /\ max_calls' = (IF num_calls + 1 >= max_calls THEN max_calls * 2 ELSE max_calls)
        /\ call_stack' = Append(call_stack, CallInfo(fn, ip, s, bc_c(Cur)))
        /\ num_calls' = Len(call_stack')
        /\ phase' = "run"]_vars

\* ---- the register stack (Spec)

\* the slot operands of an instruction: the registers its handler reads or
\* writes, relative to the frame base
RegOperands(ins) ==
    LET op == OpName(bc_op(ins))
    IN  CASE op \in {"MOV", "NEG", "NOT", "ISTC", "ISFC", "EQVV", "NEQVV",
                     "LTVV", "LEVV", "GTVV", "GEVV"} -> {bc_a(ins), bc_d(ins)}
          [] op \in {"KPRIM", "KINT", "KNUM", "KSTR", "KFN", "EQVP", "EQVN", "EQVS",
                     "NEQVP", "NEQVN", "NEQVS", "LTVN", "LEVN", "GTVN", "GEVN",
                     "CALL"} -> {bc_a(ins)}
          [] op = "KNIL" -> bc_a(ins)..bc_d(ins)
          [] op \in {"ADDVV", "SUBVV", "MULVV"} -> {bc_a(ins), bc_b(ins), bc_c(ins)}
          [] op \in {"ADDVN", "SUBVN", "MULVN"} -> {bc_a(ins), bc_b(ins)}
          [] op = "SUBNV" -> {bc_a(ins), bc_c(ins)}
          [] op \in {"IST", "ISF", "RET1"} -> {bc_d(ins)}
          [] OTHER -> {}

\* C34: while the interpreter runs, every register the instruction at ip
\* reads or writes (frame base + slot operand) lies inside the STACK_SIZE
\* slots allocated for the register stack, however deep the calls are nested.
C34_RegistersInsideStack ==
    phase = "run" => \A i \in RegOperands(Cur) : s + i >= 0 /\ s + i < STACK_SIZE

\* ---- NO_SLOT in finished prototypes (Spec)

\* the instructions whose handler writes register A
WritesA ==
    {BC(n) : n \in {"MOV", "KPRIM", "KINT", "KNUM", "KSTR", "KFN", "KNIL", "NEG", "NOT",
                    "ADDVV", "ADDVN", "SUBVV", "SUBVN", "SUBNV", "MULVV", "MULVN",
                    "ISTC", "ISFC"}}

\* the instructions of prototype f that write register NO_SLOT
WritesNoSlot(f) ==
    {pc \in 0..(Len(f.ins) - 1) :
        bc_op(f.ins[pc + 1]) \in WritesA /\ bc_a(f.ins[pc + 1]) = NO_SLOT}

C37_LocalFunctionSeesItself ==
    (prog.kind = "recurse" /\ Stopped) => phase = "done"

\* C38: a name that matches no local of the function being compiled, in an
\* expression or as the target of an assignment, ends the compilation with a
\* syntax error: the compiler neither aborts nor accepts the chunk.
C38_UnknownNameIsSyntaxError ==
    /\ (prog.kind = "unknown" /\ Stopped) => phase = "syntax_err"
    /\ prog.kind = "unknown" => ~Compiled

\* C39: every write k[num_k] of fn_emit_k lies inside the memory allocated
\* for the constant pool, and after each growth the allocation holds max_k
\* 64-bit values.
C39_PoolWritesInsideAllocation ==
    /\ pool.max_k * SIZEOF_K <= pool.bytes
    /\ (pool.num_k > 0 \/ pool.halt # "") => (pool.idx + 1) * SIZEOF_K <= pool.bytes

===========================================================================
